---------------------------- MODULE Spec2Model ----------------------------
(***************************************************************************)
(* Verification model of the Unity/Mono introspection module               *)
(* (src/dotnet): runtime-variant detection, the polymorphic facade and the *)
(* IL2CPP 2020 / Mono v2 (x64 and x86) metadata walkers.                   *)
(*                                                                         *)
(* The target process is modelled by three variables: the loaded modules,  *)
(* the places where the byte-pattern scanner finds each signature, and the *)
(* target memory (readable regions plus the values stored at addresses).   *)
(* Scalars are stored whole at the address of their first byte; C strings  *)
(* are stored byte by byte.                                                *)
(***************************************************************************)
EXTENDS Integers, Sequences, FiniteSets, TLC

VARIABLES
    modules,    \* loaded modules: name -> [base, size, machine]
    sigAt,      \* signature name -> set of addresses where the pattern matches
    mem,        \* target memory: [regions: set of <<lo, hi>>, val: addr -> value]
    manager,    \* Option<UnityManager>
    image,      \* Option<MonoImage>
    class,      \* Option<MonoClass>
    last        \* the last facade call: operation, arguments, result

vars == <<modules, sigAt, mem, manager, image, class, last>>

---------------------------------------------------------------------------
(* Option<T> and Result<T, Error> *)

None == [some |-> FALSE]
Some(x) == [some |-> TRUE, v |-> x]

Err == [ok |-> FALSE]
Ok(x) == [ok |-> TRUE, v |-> x]

Min(S) == CHOOSE x \in S : \A y \in S : x <= y

---------------------------------------------------------------------------
(* The Process capability: modules, typed reads, pattern scans *)

NULL == 0

Readable(a, n) == \E r \in mem.regions : r[1] <= a /\ a + n <= r[2]

Val(a) == IF a \in DOMAIN mem.val THEN mem.val[a] ELSE 0

\* process.read::<T>(a) for a scalar T of n bytes
read(a, n) == IF Readable(a, n) THEN Ok(Val(a)) ELSE Err

get_module_range(name) ==
    IF name \in DOMAIN modules
    THEN Ok(<<modules[name].base, modules[name].size>>)
    ELSE Err

get_module_address(name) ==
    IF name \in DOMAIN modules THEN Ok(modules[name].base) ELSE Err

\* pe::MachineType::read(process, base): None when the PE header is unreadable
MachineType_read(base) ==
    LET at == {n \in DOMAIN modules : modules[n].base = base} IN
    IF at = {} THEN None
    ELSE LET m == modules[CHOOSE n \in at : TRUE].machine IN
         IF m = "Unreadable" THEN None ELSE Some(m)

SigLen ==
    [SIG |-> 25, SIG_METADATA |-> 9, SIG_64_ASSEMBLIES_TRG_IL2CPP |-> 12,
     SIG_64_TYPE_INFO_DEFINITION_TABLE_TRG |-> 10, SIG_MONO_64 |-> 3,
     SIG_MONO_32_1 |-> 2, SIG_MONO_32_2 |-> 2]

\* Signature::scan_process_range(process, (base, size)): the first match that
\* lies in the range
scan_process_range(sig, range) ==
    LET hits == {a \in sigAt[sig] :
                    range[1] <= a /\ a + SigLen[sig] <= range[1] + range[2]} IN
    IF hits = {} THEN None ELSE Some(Min(hits))

---------------------------------------------------------------------------
(* detect_version *)

RECURSIVE get_version_no_from(_, _, _)
get_version_no_from(input, i, ver) ==
    IF i > Len(input) THEN ver
    ELSE IF input[i] \in 48..57
         THEN get_version_no_from(input, i + 1, ver * 10 + (input[i] - 48))
         ELSE ver

\* u32 accumulator; the callers pass at most 6 bytes, so it stays below 10^6
get_version_no(input) == get_version_no_from(input, 1, 0)

\* process.read::<[u16; 6]>(addr)
read_u16x6(addr) ==
    IF Readable(addr, 12) THEN Ok([i \in 1..6 |-> Val(addr + 2 * (i - 1))]) ELSE Err

\* version_string.map(|m| m as u8)
narrow(units) == [i \in 1..Len(units) |-> units[i] % 256]

\* index of the first b'.' at or after position from, Len + 1 when there is none
NextDot(s, from) ==
    LET dots == {i \in from..Len(s) : s[i] = 46} IN
    IF dots = {} THEN Len(s) + 1 ELSE Min(dots)

\* version_string.split(|&b| b == b'.'): the segments as a sequence
RECURSIVE SplitFrom(_, _)
SplitFrom(s, from) ==
    LET d == NextDot(s, from) IN
    IF d > Len(s) THEN <<SubSeq(s, from, Len(s))>>
    ELSE <<SubSeq(s, from, d - 1)>> \o SplitFrom(s, d + 1)

split(s) == SplitFrom(s, 1)

\* SIG.scan_process_range(process, unity_module)? + 0x1E, then the 6 code units
read_unity_version(unity_module) ==
    LET hit == scan_process_range("SIG", unity_module) IN
    IF ~hit.some THEN None
    ELSE LET vs == read_u16x6(hit.v + 30) IN
         IF ~vs.ok THEN None ELSE Some(split(narrow(vs.v)))

\* mutant of il2cpp_by_metadata: the metadata version compared with <= 27
il2cpp_by_metadata_le(gameassembly) ==
    LET hit == scan_process_range("SIG_METADATA", gameassembly) IN
    IF ~hit.some THEN Some("Il2Cpp_2019_x64")
    ELSE LET addr == hit.v + 3
             disp == read(addr, 4) IN
         IF ~disp.ok THEN None
         ELSE LET target == addr + 4 + disp.v
                  ver == read(target + 4, 4) IN
              IF ~ver.ok THEN None
              ELSE IF ver.v <= 27 THEN Some("Il2Cpp_2019_x64")
                   ELSE Some("Il2Cpp_2020_x64")

\* match il2cpp.cmp(&2019) { Less, Equal, _ => metadata probe }
il2cpp_by_metadata(gameassembly) ==
    LET hit == scan_process_range("SIG_METADATA", gameassembly) IN
    IF ~hit.some THEN Some("Il2Cpp_2019_x64")
    ELSE LET addr == hit.v + 3
             disp == read(addr, 4) IN
         IF ~disp.ok THEN None
         ELSE LET target == addr + 4 + disp.v
                  ver == read(target + 4, 4) IN
              IF ~ver.ok THEN None
              ELSE IF ver.v < 27 THEN Some("Il2Cpp_2019_x64")
                   ELSE Some("Il2Cpp_2020_x64")

\* mutant of detect_il2cpp: the x86 UnityPlayer.dll is not rejected
detect_il2cpp_no_x86_check(gameassembly) ==
    LET unity_module == get_module_range("UnityPlayer.dll") IN
    IF ~unity_module.ok THEN None
    ELSE LET mt == MachineType_read(unity_module.v[1]) IN
         IF ~mt.some THEN None
         ELSE LET ver == read_unity_version(unity_module.v) IN
              IF ~ver.some THEN None
              ELSE LET il2cpp == get_version_no(ver.v[1]) IN
                   IF il2cpp < 2019 THEN Some("Il2Cpp_base_x64")
                   ELSE IF il2cpp = 2019 THEN Some("Il2Cpp_2019_x64")
                   ELSE il2cpp_by_metadata(gameassembly)

detect_il2cpp(gameassembly) ==
    LET unity_module == get_module_range("UnityPlayer.dll") IN
    IF ~unity_module.ok THEN None
    ELSE LET mt == MachineType_read(unity_module.v[1]) IN
         IF ~mt.some THEN None
         ELSE IF mt.v = "X86" THEN None
         ELSE LET ver == read_unity_version(unity_module.v) IN
              IF ~ver.some THEN None
              ELSE LET il2cpp == get_version_no(ver.v[1]) IN
                   IF il2cpp < 2019 THEN Some("Il2Cpp_base_x64")
                   ELSE IF il2cpp = 2019 THEN Some("Il2Cpp_2019_x64")
                   ELSE il2cpp_by_metadata(gameassembly)

\* mutant of detect_mono_v1: only X86_64 is tagged x64
detect_mono_v1_only_x64(x) ==
    LET is_64_bit == MachineType_read(x) IN
    IF ~is_64_bit.some THEN None
    ELSE IF is_64_bit.v = "X86_64" THEN Some("MonoV1_x64")
    ELSE Some("MonoV1_x86")

detect_mono_v1(x) ==
    LET is_64_bit == MachineType_read(x) IN
    IF ~is_64_bit.some THEN None
    ELSE IF is_64_bit.v = "X86" THEN Some("MonoV1_x86")
    ELSE Some("MonoV1_x64")

\* mutant of is_mono_v3: 2021.2 itself is not yet Mono v3
is_mono_v3_after_2(unity_version, minor_version) ==
    (unity_version = 2021 /\ minor_version > 2) \/ unity_version > 2021

is_mono_v3(unity_version, minor_version) ==
    (unity_version = 2021 /\ minor_version >= 2) \/ unity_version > 2021

detect_mono_v2 ==
    LET unity_module == get_module_range("UnityPlayer.dll") IN
    IF ~unity_module.ok THEN None
    ELSE LET ver == read_unity_version(unity_module.v) IN
         IF ~ver.some THEN None
         ELSE IF Len(ver.v) < 2 THEN None
         ELSE LET unity_version == get_version_no(ver.v[1])
                  minor_version == get_version_no(ver.v[2])
                  mt == MachineType_read(unity_module.v[1]) IN
              IF ~mt.some THEN None
              ELSE IF is_mono_v3(unity_version, minor_version)
                   THEN Some("MonoV3_x64")
                   ELSE IF mt.v = "X86_64" THEN Some("MonoV2_x64")
                        ELSE Some("MonoV2_x86")

detect_version ==
    LET gameassembly == get_module_range("GameAssembly.dll")
        mono == get_module_address("mono.dll") IN
    IF gameassembly.ok THEN detect_il2cpp(gameassembly.v)
    ELSE IF mono.ok THEN detect_mono_v1(mono.v)
    ELSE IF get_module_address("mono-2.0-bdwgc.dll").ok THEN detect_mono_v2
    ELSE None

---------------------------------------------------------------------------
(* Typed pointers (MonoPtr64 / MonoPtr32) and struct layouts.  A layout     *)
(* gives the pointer size and the byte offset of every field a walker uses; *)
(* the offsets follow from the #[repr(C)] field order of each struct.       *)

\* C-string window of read_str::<128>
NameWindow == 128

\* il2cpp_2020.rs: MonoAssembly, MonoImage, MonoClass, MonoClassField
LayoutIl2Cpp2020 ==
    [ptr |-> 8,
     asm_size |-> 88, asm_name |-> 24, asm_image |-> 0,
     img_size |-> 72, img_assembly |-> 16, img_type_count |-> 24,
     img_metadata_handle |-> 40,
     cls_size |-> 312, cls_name |-> 16, cls_parent |-> 88, cls_fields |-> 128,
     cls_static_fields |-> 184, cls_field_count |-> 288,
     fld_size |-> 32, fld_name |-> 0, fld_offset |-> 24]

\* mono_v2_x64.rs: GList, MonoAssembly, MonoImage, MonoClassDef, MonoClass,
\* MonoClassRuntimeInfo, MonoVTable, MonoClassField
LayoutMonoV2x64 ==
    [ptr |-> 8, pe_export_directory |-> 136,
     glist_size |-> 24, glist_data |-> 0, glist_next |-> 8,
     asm_size |-> 104, asm_name |-> 16, asm_image |-> 96,
     img_size |-> 1256, img_assembly |-> 1200, img_cache_size |-> 1240,
     img_cache_table |-> 1248,
     cls_size |-> 272, cls_parent |-> 48, cls_name |-> 72, cls_vtable_size |-> 92,
     cls_fields |-> 152, cls_runtime_info |-> 208, cls_field_count |-> 256,
     cls_next_class_cache |-> 264,
     rti_size |-> 16, rti_domain_vtables |-> 8, vtable_sizeof |-> 72,
     fld_size |-> 32, fld_name |-> 8, fld_offset |-> 24]

\* mono_v2_x86.rs: the same structs with 4-byte pointers
LayoutMonoV2x86 ==
    [ptr |-> 4, pe_export_directory |-> 120,
     glist_size |-> 12, glist_data |-> 0, glist_next |-> 4,
     asm_size |-> 72, asm_name |-> 8, asm_image |-> 68,
     img_size |-> 872, img_assembly |-> 840, img_cache_size |-> 860,
     img_cache_table |-> 868,
     cls_size |-> 172, cls_parent |-> 32, cls_name |-> 44, cls_vtable_size |-> 56,
     cls_fields |-> 96, cls_runtime_info |-> 132, cls_field_count |-> 164,
     cls_next_class_cache |-> 168,
     rti_size |-> 8, rti_domain_vtables |-> 4, vtable_sizeof |-> 44,
     fld_size |-> 16, fld_name |-> 4, fld_offset |-> 12]

\* MonoPtr::offset(count): self.0 + count * size_of::<T>()
offset(p, count, size) == p + count * size

\* MonoPtr::byte_offset(bytes)
byte_offset(p, bytes) == p + bytes

\* MonoPtr::index(process, idx): a scalar T of `size` bytes at p + idx * size
index(p, idx, size) == read(p + idx * size, size)

RECURSIVE c_strlen(_, _)
c_strlen(a, i) ==
    IF i = NameWindow \/ Val(a + i) = 0 THEN i ELSE c_strlen(a, i + 1)

\* mutant of read_name: only the bytes up to and including the NUL are read
read_name_until_nul(a) ==
    IF Readable(a, IF c_strlen(a, 0) < NameWindow THEN c_strlen(a, 0) + 1 ELSE NameWindow)
    THEN Ok([i \in 1..c_strlen(a, 0) |-> Val(a + i - 1)])
    ELSE Err

\* mutant of read_name: a window without a NUL is rejected
read_name_nul_required(a) ==
    IF Readable(a, NameWindow) /\ c_strlen(a, 0) < NameWindow
    THEN Ok([i \in 1..c_strlen(a, 0) |-> Val(a + i - 1)])
    ELSE Err

\* read_str::<128>(process) followed by the cut at the first NUL:
\* &name[..name.iter().position(|&b| b == 0).unwrap_or(name.len())]
read_name(a) ==
    IF Readable(a, NameWindow)
    THEN Ok([i \in 1..c_strlen(a, 0) |-> Val(a + i - 1)])
    ELSE Err

\* mutant of i32_as_u64: the 32 bits are zero-extended
i32_as_u64_zero_extended(o) ==
    <<0, 0, (o \div 65536) % 65536, o % 65536>>

\* `offset as u64` of an i32: sign extension, as four 16-bit limbs, high first
i32_as_u64(o) ==
    IF o >= 0
    THEN <<0, 0, o \div 65536, o % 65536>>
    ELSE <<65535, 65535, (o \div 65536) % 65536, o % 65536>>

\* MonoAssembly snapshot (both walkers): the fields the walkers use
read_assembly(L, a) ==
    IF Readable(a, L.asm_size)
    THEN Ok([name |-> Val(a + L.asm_name), image |-> Val(a + L.asm_image)])
    ELSE Err

\* MonoImage snapshot.  IL2CPP uses type_count and metadata_handle, Mono v2
\* uses class_cache.size and class_cache.table; assembly is the back pointer.
read_image(L, a) ==
    IF ~Readable(a, L.img_size) THEN Err
    ELSE IF "img_type_count" \in DOMAIN L
    THEN Ok([assembly |-> Val(a + L.img_assembly),
             type_count |-> Val(a + L.img_type_count),
             metadata_handle |-> Val(a + L.img_metadata_handle),
             cache_size |-> 0, cache_table |-> 0])
    ELSE Ok([assembly |-> Val(a + L.img_assembly),
             type_count |-> 0, metadata_handle |-> 0,
             cache_size |-> Val(a + L.img_cache_size),
             cache_table |-> Val(a + L.img_cache_table)])

\* MonoClass (IL2CPP) / MonoClassDef (Mono v2) snapshot
read_class(L, a) ==
    IF ~Readable(a, L.cls_size) THEN Err
    ELSE IF "cls_static_fields" \in DOMAIN L
    THEN Ok([name |-> Val(a + L.cls_name), fields |-> Val(a + L.cls_fields),
             field_count |-> Val(a + L.cls_field_count),
             parent |-> Val(a + L.cls_parent),
             static_fields |-> Val(a + L.cls_static_fields),
             vtable_size |-> 0, runtime_info |-> 0, next_class_cache |-> 0])
    ELSE Ok([name |-> Val(a + L.cls_name), fields |-> Val(a + L.cls_fields),
             field_count |-> Val(a + L.cls_field_count),
             parent |-> Val(a + L.cls_parent),
             static_fields |-> 0,
             vtable_size |-> Val(a + L.cls_vtable_size),
             runtime_info |-> Val(a + L.cls_runtime_info),
             next_class_cache |-> Val(a + L.cls_next_class_cache)])

\* MonoClassField snapshot
read_field(L, a) ==
    IF Readable(a, L.fld_size)
    THEN Ok([name |-> Val(a + L.fld_name), offset |-> Val(a + L.fld_offset)])
    ELSE Err

---------------------------------------------------------------------------
(* A lookup whose loop revisits a loop state it has already been in never   *)
(* returns: the walkers keep no iteration bound.                            *)

Diverges == [some |-> FALSE, diverges |-> TRUE]

---------------------------------------------------------------------------
(* il2cpp_2020.rs *)

\* addr + 0x4 + process.read::<i32>(addr): the RIP-relative target
rip_relative(addr) ==
    LET disp == read(addr, 4) IN
    IF disp.ok THEN Ok(addr + 4 + disp.v) ELSE Err

il2cpp_2020_attach ==
    LET mono_module == get_module_range("GameAssembly.dll") IN
    IF ~mono_module.ok THEN None
    ELSE
    LET hit1 == scan_process_range("SIG_64_ASSEMBLIES_TRG_IL2CPP", mono_module.v) IN
    IF ~hit1.some THEN None
    ELSE
    LET assemblies_trg_addr == rip_relative(hit1.v + 12) IN
    IF ~assemblies_trg_addr.ok THEN None
    ELSE
    LET assemblies == read(assemblies_trg_addr.v, 8) IN
    IF ~assemblies.ok THEN None
    ELSE
    LET hit2 == scan_process_range("SIG_64_TYPE_INFO_DEFINITION_TABLE_TRG",
                                   mono_module.v) IN
    IF ~hit2.some THEN None
    ELSE
    LET type_info_definition_table_trg_addr == rip_relative(hit2.v - 4) IN
    IF ~type_info_definition_table_trg_addr.ok THEN None
    ELSE
    LET type_info_definition_table ==
            read(type_info_definition_table_trg_addr.v, 8) IN
    IF ~type_info_definition_table.ok THEN None
    ELSE Some([assemblies |-> assemblies.v,
               type_info_definition_table |-> type_info_definition_table.v])

\* break mono_assembly.image.read(self.process).ok()?
matched_image(L, mono_assembly) ==
    LET img == read_image(L, mono_assembly.image) IN
    IF img.ok THEN Some(img.v) ELSE None

\* mutant of il2cpp_2020_get_image_loop: a null slot is skipped, not the end
RECURSIVE il2cpp_2020_get_image_loop_skip_null(_, _)
il2cpp_2020_get_image_loop_skip_null(assemblies, assembly_name) ==
    LET ptr == read(assemblies, 8) IN
    IF ~ptr.ok THEN None
    ELSE IF ptr.v = NULL
    THEN il2cpp_2020_get_image_loop_skip_null(offset(assemblies, 1, 8), assembly_name)
    ELSE
    LET mono_assembly == read_assembly(LayoutIl2Cpp2020, ptr.v) IN
    IF ~mono_assembly.ok THEN None
    ELSE
    LET this_name == read_name(mono_assembly.v.name) IN
    IF ~this_name.ok THEN None
    ELSE IF this_name.v = assembly_name
         THEN matched_image(LayoutIl2Cpp2020, mono_assembly.v)
         ELSE il2cpp_2020_get_image_loop_skip_null(offset(assemblies, 1, 8),
                                                   assembly_name)

RECURSIVE il2cpp_2020_get_image_loop(_, _)
il2cpp_2020_get_image_loop(assemblies, assembly_name) ==
    LET ptr == read(assemblies, 8) IN
    IF ~ptr.ok THEN None
    ELSE IF ptr.v = NULL THEN None
    ELSE
    LET mono_assembly == read_assembly(LayoutIl2Cpp2020, ptr.v) IN
    IF ~mono_assembly.ok THEN None
    ELSE
    LET this_name == read_name(mono_assembly.v.name) IN
    IF ~this_name.ok THEN None
    ELSE IF this_name.v = assembly_name
         THEN matched_image(LayoutIl2Cpp2020, mono_assembly.v)
         ELSE il2cpp_2020_get_image_loop(offset(assemblies, 1, 8), assembly_name)

\* mutant of il2cpp_2020_get_image: the array pointer is read from the
\* target's global on every call
il2cpp_2020_get_image_from_global(mono_module, assembly_name) ==
    LET range == get_module_range("GameAssembly.dll")
        hit == scan_process_range("SIG_64_ASSEMBLIES_TRG_IL2CPP", range.v)
        assemblies_trg_addr == rip_relative(hit.v + 12)
        assemblies == read(assemblies_trg_addr.v, 8) IN
    il2cpp_2020_get_image_loop(assemblies.v, assembly_name)

il2cpp_2020_get_image(mono_module, assembly_name) ==
    il2cpp_2020_get_image_loop(mono_module.assemblies, assembly_name)

\* the filter_map closure of classes(): one slot of the type-info table
il2cpp_2020_class_at(ptr, i) ==
    LET class_ptr == index(ptr, i, 8) IN
    IF ~class_ptr.ok THEN <<>>
    ELSE IF class_ptr.v = NULL THEN <<>>
    ELSE LET c == read_class(LayoutIl2Cpp2020, class_ptr.v) IN
         IF c.ok THEN <<c.v>> ELSE <<>>

RECURSIVE il2cpp_2020_class_seq(_, _, _)
il2cpp_2020_class_seq(ptr, i, type_count) ==
    IF i >= type_count THEN <<>>
    ELSE il2cpp_2020_class_at(ptr, i) \o il2cpp_2020_class_seq(ptr, i + 1, type_count)

\* classes(): Err when metadata_handle cannot be read
il2cpp_2020_classes(mono_module, mono_image) ==
    LET handle == read(mono_image.metadata_handle, 4) IN
    IF ~handle.ok THEN Err
    ELSE Ok(il2cpp_2020_class_seq(
                offset(mono_module.type_info_definition_table, handle.v, 8),
                0, mono_image.type_count))

\* mutant of class_matches: the name alone decides
class_matches_name_only(c, class_name) ==
    LET success == read_name(c.name) IN
    IF success.ok THEN success.v = class_name ELSE FALSE

\* the find closure of get_class (both walkers)
class_matches(c, class_name) ==
    LET success == read_name(c.name) IN
    IF success.ok THEN success.v = class_name /\ c.fields # NULL ELSE FALSE

\* Iterator::find: the first element satisfying the closure
find_class(classes, class_name) ==
    LET hits == {i \in 1..Len(classes) : class_matches(classes[i], class_name)} IN
    IF hits = {} THEN None ELSE Some(classes[Min(hits)])

il2cpp_2020_get_class(mono_module, mono_image, class_name) ==
    LET classes == il2cpp_2020_classes(mono_module, mono_image) IN
    IF ~classes.ok THEN None ELSE find_class(classes.v, class_name)

\* mutant of field_seq: the enumeration ends at the first entry that cannot
\* be read
RECURSIVE field_seq_until_error(_, _, _, _)
field_seq_until_error(L, fields, i, field_count) ==
    IF i >= field_count THEN <<>>
    ELSE LET f == read_field(L, fields + i * L.fld_size) IN
         IF f.ok THEN <<f.v>> \o field_seq_until_error(L, fields, i + 1, field_count)
         ELSE <<>>

\* fields(): flat_map over Result drops the entries that cannot be read
RECURSIVE field_seq(_, _, _, _)
field_seq(L, fields, i, field_count) ==
    IF i >= field_count THEN <<>>
    ELSE LET f == read_field(L, fields + i * L.fld_size) IN
         (IF f.ok THEN <<f.v>> ELSE <<>>) \o field_seq(L, fields, i + 1, field_count)

\* let Ok(field_name) = ... else { return false }
il2cpp_2020_field_matches(field, name) ==
    LET field_name == read_name(field.name) IN
    IF field_name.ok THEN field_name.v = name ELSE FALSE

il2cpp_2020_get_field(mono_class, name) ==
    LET fields == field_seq(LayoutIl2Cpp2020, mono_class.fields, 0,
                            mono_class.field_count)
        hits == {i \in 1..Len(fields) : il2cpp_2020_field_matches(fields[i], name)} IN
    IF hits = {} THEN None ELSE Some(i32_as_u64(fields[Min(hits)].offset))

\* mutant of il2cpp_2020_get_static_table: the table is returned only while
\* the target still maps it
il2cpp_2020_get_static_table_probed(mono_class) ==
    LET addr == mono_class.static_fields IN
    IF addr = NULL \/ ~Readable(addr, 8) THEN None ELSE Some(addr)

il2cpp_2020_get_static_table(mono_class) ==
    LET addr == mono_class.static_fields IN
    IF addr = NULL THEN None ELSE Some(addr)

\* mutant of read_parent: a failed read yields the zeroed descriptor
read_parent_or_zeroed(L, mono_class) ==
    LET parent == read_class(L, mono_class.parent) IN
    IF parent.ok THEN Some(parent.v)
    ELSE Some([name |-> 0, fields |-> 0, field_count |-> 0, parent |-> 0,
               static_fields |-> 0, vtable_size |-> 0, runtime_info |-> 0,
               next_class_cache |-> 0])

\* get_parent (both walkers): self.mono_class.parent.read(process).ok()?
read_parent(L, mono_class) ==
    LET parent == read_class(L, mono_class.parent) IN
    IF parent.ok THEN Some(parent.v) ELSE None

---------------------------------------------------------------------------
(* mono_v2_x64.rs and mono_v2_x86.rs: the same code over two layouts *)

\* b"mono_assembly_foreach"
MonoAssemblyForeach ==
    <<109, 111, 110, 111, 95, 97, 115, 115, 101, 109, 98, 108, 121, 95,
      102, 111, 114, 101, 97, 99, 104>>

\* mutant of read_u8x21: the export name is read as a C string of up to 22
\* bytes
read_u8x21_c_str(a) ==
    IF Readable(a, 22)
    THEN Ok([i \in 1..Min({k \in 0..22 : k = 22 \/ Val(a + k) = 0}) |-> Val(a + i - 1)])
    ELSE Err

\* process.read::<[u8; 21]>(a)
read_u8x21(a) ==
    IF Readable(a, 21) THEN Ok([i \in 1..21 |-> Val(a + i - 1)]) ELSE Err

\* for val in 0..number_of_functions: the address of the export, NULL when no
\* slot matches, Err when a read fails
RECURSIVE mono_v2_export_scan(_, _, _, _, _)
mono_v2_export_scan(mono_module, number_of_functions, function_address_array_index, function_name_array_index, val) ==
    IF val >= number_of_functions THEN Ok(NULL)
    ELSE
    LET function_name_index ==
            read(mono_module + function_name_array_index + val * 4, 4) IN
    IF ~function_name_index.ok THEN Err
    ELSE
    LET function_name == read_u8x21(mono_module + function_name_index.v) IN
    IF ~function_name.ok THEN Err
    ELSE IF function_name.v = MonoAssemblyForeach
         THEN LET rva == read(mono_module + function_address_array_index + val * 4, 4)
              IN IF rva.ok THEN Ok(mono_module + rva.v) ELSE Err
         ELSE mono_v2_export_scan(mono_module, number_of_functions,
                                  function_address_array_index,
                                  function_name_array_index, val + 1)

\* the root-domain function: the PE export directory walk of attach
mono_v2_root_domain_function(L, mono_module) ==
    LET start_index == read(mono_module + 60, 4) IN
    IF ~start_index.ok THEN Err
    ELSE
    LET export_directory ==
            read(mono_module + start_index.v + L.pe_export_directory, 4) IN
    IF ~export_directory.ok THEN Err
    ELSE
    LET number_of_functions == read(mono_module + export_directory.v + 20, 4)
        function_address_array_index == read(mono_module + export_directory.v + 28, 4)
        function_name_array_index == read(mono_module + export_directory.v + 32, 4) IN
    IF ~number_of_functions.ok \/ ~function_address_array_index.ok
          \/ ~function_name_array_index.ok
    THEN Err
    ELSE mono_v2_export_scan(mono_module, number_of_functions.v,
                             function_address_array_index.v,
                             function_name_array_index.v, 0)

\* x64: SIG_MONO_64 in the first 0x100 bytes, RIP-relative operand at match + 3
mono_v2_x64_assemblies(root_domain_function_address) ==
    LET hit == scan_process_range("SIG_MONO_64", <<root_domain_function_address, 256>>)
    IN IF ~hit.some THEN None
       ELSE LET target == rip_relative(hit.v + 3) IN
            IF target.ok THEN Some(target.v) ELSE None

\* x86: SIG_MONO_32_1, else SIG_MONO_32_2; absolute 32-bit operand at match + 2
mono_v2_x86_assemblies(root_domain_function_address) ==
    LET x == scan_process_range("SIG_MONO_32_1", <<root_domain_function_address, 256>>)
        y == scan_process_range("SIG_MONO_32_2", <<root_domain_function_address, 256>>)
    IN IF ~x.some /\ ~y.some THEN None
       ELSE LET scan_address == IF x.some THEN x.v + 2 ELSE y.v + 2
                operand == read(scan_address, 4) IN
            IF operand.ok THEN Some(operand.v) ELSE None

mono_v2_attach(L) ==
    LET mono_module == get_module_address("mono-2.0-bdwgc.dll") IN
    IF ~mono_module.ok THEN None
    ELSE
    LET root_domain_function_address ==
            mono_v2_root_domain_function(L, mono_module.v) IN
    IF ~root_domain_function_address.ok THEN None
    ELSE IF root_domain_function_address.v = NULL THEN None
    ELSE
    LET assemblies ==
            IF L.ptr = 8
            THEN mono_v2_x64_assemblies(root_domain_function_address.v)
            ELSE mono_v2_x86_assemblies(root_domain_function_address.v) IN
    IF ~assemblies.some THEN None
    ELSE Some([assemblies |-> assemblies.v, type_info_definition_table |-> NULL])

\* GList snapshot
read_glist(L, a) ==
    IF Readable(a, L.glist_size)
    THEN Ok([data |-> Val(a + L.glist_data), next |-> Val(a + L.glist_next)])
    ELSE Err

RECURSIVE mono_v2_get_image_loop(_, _, _, _)
mono_v2_get_image_loop(L, assemblies, assembly_name, seen) ==
    IF assemblies.data = NULL THEN None
    ELSE IF assemblies \in seen THEN Diverges
    ELSE
    LET ptr == read_assembly(L, assemblies.data) IN
    IF ~ptr.ok THEN None
    ELSE
    LET name == read_name(ptr.v.name) IN
    IF ~name.ok THEN None
    ELSE IF name.v = assembly_name THEN matched_image(L, ptr.v)
    ELSE LET next == read_glist(L, assemblies.next) IN
         IF ~next.ok THEN None
         ELSE mono_v2_get_image_loop(L, next.v, assembly_name,
                                     seen \cup {assemblies})

\* mutant of mono_v2_get_image: the root is dereferenced once
mono_v2_get_image_single_deref(L, mono_module, assembly_name) ==
    LET assemblies == read_glist(L, mono_module.assemblies) IN
    IF ~assemblies.ok THEN None
    ELSE mono_v2_get_image_loop(L, assemblies.v, assembly_name, {})

mono_v2_get_image(L, mono_module, assembly_name) ==
    LET head == read(mono_module.assemblies, L.ptr) IN
    IF ~head.ok THEN None
    ELSE LET assemblies == read_glist(L, head.v) IN
         IF ~assemblies.ok THEN None
         ELSE mono_v2_get_image_loop(L, assemblies.v, assembly_name, {})

\* bucket head: table.index(process, i).unwrap_or(NULL)
mono_v2_bucket(L, mono_image, i) ==
    LET table == index(mono_image.cache_table, i, L.ptr) IN
    IF table.ok THEN table.v ELSE NULL

\* classes() consumed by find: buckets 0..size-1 in order, each chain through
\* next_class_cache until a null pointer or a failed read ends it
RECURSIVE mono_v2_find_class(_, _, _, _, _, _)
mono_v2_find_class(L, mono_image, class_name, i, table, seen) ==
    IF i >= mono_image.cache_size THEN None
    ELSE IF table = NULL
    THEN IF i + 1 >= mono_image.cache_size THEN None
         ELSE mono_v2_find_class(L, mono_image, class_name, i + 1,
                                 mono_v2_bucket(L, mono_image, i + 1), {})
    ELSE IF table \in seen THEN Diverges
    ELSE LET c == read_class(L, table) IN
         IF ~c.ok
         THEN mono_v2_find_class(L, mono_image, class_name, i, NULL, {})
         ELSE IF class_matches(c.v, class_name) THEN Some(c.v)
         ELSE mono_v2_find_class(L, mono_image, class_name, i,
                                 c.v.next_class_cache, seen \cup {table})

mono_v2_get_class(L, mono_image, class_name) ==
    mono_v2_find_class(L, mono_image, class_name, 0,
                       mono_v2_bucket(L, mono_image, 0), {})

\* read_str::<128>(process).unwrap_or([0; 128]), then the cut at the first NUL
mono_v2_field_matches(field, name) ==
    LET success == read_name(field.name) IN
    (IF success.ok THEN success.v ELSE <<>>) = name

mono_v2_get_field(L, mono_class, name) ==
    LET fields == field_seq(L, mono_class.fields, 0, mono_class.field_count)
        hits == {i \in 1..Len(fields) : mono_v2_field_matches(fields[i], name)} IN
    IF hits = {} THEN None ELSE Some(i32_as_u64(fields[Min(hits)].offset))

\* mutant of mono_v2_get_static_table: the whole MonoVTable is skipped
mono_v2_get_static_table_past_vtable(L, mono_class) ==
    LET runtime_info ==
            IF Readable(mono_class.runtime_info, L.rti_size)
            THEN Ok(Val(mono_class.runtime_info + L.rti_domain_vtables))
            ELSE Err IN
    IF ~runtime_info.ok THEN None
    ELSE LET addr == index(byte_offset(runtime_info.v, L.vtable_sizeof),
                           mono_class.vtable_size, L.ptr) IN
         IF ~addr.ok THEN None
         ELSE IF addr.v = NULL THEN None ELSE Some(addr.v)

\* domain_vtables.byte_offset(size_of::<MonoVTable>() - size_of::<MonoPtr>())
\*     .cast::<MonoPtr>().index(process, vtable_size as usize)
mono_v2_get_static_table(L, mono_class) ==
    LET runtime_info ==
            IF Readable(mono_class.runtime_info, L.rti_size)
            THEN Ok(Val(mono_class.runtime_info + L.rti_domain_vtables))
            ELSE Err IN
    IF ~runtime_info.ok THEN None
    ELSE LET addr == index(byte_offset(runtime_info.v, L.vtable_sizeof - L.ptr),
                           mono_class.vtable_size, L.ptr) IN
         IF ~addr.ok THEN None
         ELSE IF addr.v = NULL THEN None ELSE Some(addr.v)

---------------------------------------------------------------------------
(* mod.rs: the facade.  The walkers mono_v1_x86, mono_v1_x64, mono_v3_x64,  *)
(* il2cpp_base and il2cpp_2019 are separate modules; each of their calls    *)
(* either fails or yields an opaque value, decided by the parameter ext.    *)

MonoVersion ==
    {"MonoV1_x86", "MonoV1_x64", "MonoV2_x86", "MonoV2_x64", "MonoV3_x64",
     "Il2Cpp_base_x64", "Il2Cpp_2019_x64", "Il2Cpp_2020_x64"}

OpaqueModule == [assemblies |-> NULL, type_info_definition_table |-> NULL]

OpaqueImage ==
    [assembly |-> NULL, type_count |-> 0, metadata_handle |-> NULL,
     cache_size |-> 0, cache_table |-> NULL]

OpaqueClass ==
    [name |-> NULL, fields |-> NULL, field_count |-> 0, parent |-> NULL,
     static_fields |-> NULL, vtable_size |-> 0, runtime_info |-> NULL,
     next_class_cache |-> NULL]

\* a call into a walker whose module is not part of this model
other_walker(ext, value) == IF ext THEN Some(value) ELSE None

\* Some(UnityManager::X(walker::MonoModule::attach(process)?))
as_manager(tag, r) ==
    IF r.some THEN Some([variant |-> tag, mono_module |-> r.v]) ELSE None

\* mutant of attach: the Il2Cpp_2019_x64 arm wraps as Il2Cpp_2020
attach_2019_as_2020(ver, ext) ==
    CASE ver = "MonoV1_x86" -> as_manager("MonoV1_x86", other_walker(ext, OpaqueModule))
      [] ver = "MonoV1_x64" -> as_manager("MonoV1_x64", other_walker(ext, OpaqueModule))
      [] ver = "MonoV2_x86" -> as_manager("MonoV2_x86", mono_v2_attach(LayoutMonoV2x86))
      [] ver = "MonoV2_x64" -> as_manager("MonoV2_x64", mono_v2_attach(LayoutMonoV2x64))
      [] ver = "MonoV3_x64" -> as_manager("MonoV3_x64", other_walker(ext, OpaqueModule))
      [] ver = "Il2Cpp_base_x64" ->
            as_manager("Il2Cpp_base", other_walker(ext, OpaqueModule))
      [] ver = "Il2Cpp_2019_x64" ->
            as_manager("Il2Cpp_2020", other_walker(ext, OpaqueModule))
      [] ver = "Il2Cpp_2020_x64" -> as_manager("Il2Cpp_2020", il2cpp_2020_attach)

attach(ver, ext) ==
    CASE ver = "MonoV1_x86" -> as_manager("MonoV1_x86", other_walker(ext, OpaqueModule))
      [] ver = "MonoV1_x64" -> as_manager("MonoV1_x64", other_walker(ext, OpaqueModule))
      [] ver = "MonoV2_x86" -> as_manager("MonoV2_x86", mono_v2_attach(LayoutMonoV2x86))
      [] ver = "MonoV2_x64" -> as_manager("MonoV2_x64", mono_v2_attach(LayoutMonoV2x64))
      [] ver = "MonoV3_x64" -> as_manager("MonoV3_x64", other_walker(ext, OpaqueModule))
      [] ver = "Il2Cpp_base_x64" ->
            as_manager("Il2Cpp_base", other_walker(ext, OpaqueModule))
      [] ver = "Il2Cpp_2019_x64" ->
            as_manager("Il2Cpp_2019", other_walker(ext, OpaqueModule))
      [] ver = "Il2Cpp_2020_x64" -> as_manager("Il2Cpp_2020", il2cpp_2020_attach)

try_attach(ext) ==
    LET ver == detect_version IN
    IF ~ver.some THEN None ELSE attach(ver.v, ext)

\* Some(MonoImage::X(x.get_image(assembly_name)?))
as_image(tag, self, r) ==
    IF r.some
    THEN Some([variant |-> tag, mono_module |-> self.mono_module, mono_image |-> r.v])
    ELSE r

get_image(self, assembly_name, ext) ==
    CASE self.variant = "MonoV1_x86" ->
            as_image("MonoV1_x86", self, other_walker(ext, OpaqueImage))
      [] self.variant = "MonoV1_x64" ->
            as_image("MonoV1_x64", self, other_walker(ext, OpaqueImage))
      [] self.variant = "MonoV2_x86" ->
            as_image("MonoV2_x86", self,
                     mono_v2_get_image(LayoutMonoV2x86, self.mono_module, assembly_name))
      [] self.variant = "MonoV2_x64" ->
            as_image("MonoV2_x64", self,
                     mono_v2_get_image(LayoutMonoV2x64, self.mono_module, assembly_name))
      [] self.variant = "MonoV3_x64" ->
            as_image("MonoV3_x64", self, other_walker(ext, OpaqueImage))
      [] self.variant = "Il2Cpp_base" ->
            as_image("Il2Cpp_base", self, other_walker(ext, OpaqueImage))
      [] self.variant = "Il2Cpp_2019" ->
            as_image("Il2Cpp_2019", self, other_walker(ext, OpaqueImage))
      [] self.variant = "Il2Cpp_2020" ->
            as_image("Il2Cpp_2020", self,
                     il2cpp_2020_get_image(self.mono_module, assembly_name))

\* "Assembly-CSharp"
AssemblyCSharp ==
    <<65, 115, 115, 101, 109, 98, 108, 121, 45, 67, 83, 104, 97, 114, 112>>

get_default_image(self, ext) == get_image(self, AssemblyCSharp, ext)

\* Some(MonoClass::X(x.get_class(class_name)?)), Some(MonoClass::X(x.get_parent()?))
as_class(tag, self, r) ==
    IF r.some
    THEN Some([variant |-> tag, mono_module |-> self.mono_module, mono_class |-> r.v])
    ELSE r

get_class(self, class_name, ext) ==
    CASE self.variant = "MonoV1_x86" ->
            as_class("MonoV1_x86", self, other_walker(ext, OpaqueClass))
      [] self.variant = "MonoV1_x64" ->
            as_class("MonoV1_x64", self, other_walker(ext, OpaqueClass))
      [] self.variant = "MonoV2_x86" ->
            as_class("MonoV2_x86", self,
                     mono_v2_get_class(LayoutMonoV2x86, self.mono_image, class_name))
      [] self.variant = "MonoV2_x64" ->
            as_class("MonoV2_x64", self,
                     mono_v2_get_class(LayoutMonoV2x64, self.mono_image, class_name))
      [] self.variant = "MonoV3_x64" ->
            as_class("MonoV3_x64", self, other_walker(ext, OpaqueClass))
      [] self.variant = "Il2Cpp_base" ->
            as_class("Il2Cpp_base", self, other_walker(ext, OpaqueClass))
      [] self.variant = "Il2Cpp_2019" ->
            as_class("Il2Cpp_2019", self, other_walker(ext, OpaqueClass))
      [] self.variant = "Il2Cpp_2020" ->
            as_class("Il2Cpp_2020", self,
                     il2cpp_2020_get_class(self.mono_module, self.mono_image, class_name))

\* the result of another walker's get_field / get_static_table
OpaqueOffset == <<0, 0, 0, 0>>
OpaqueAddress == 1

get_field(self, field_name, ext) ==
    CASE self.variant = "MonoV2_x86" ->
            mono_v2_get_field(LayoutMonoV2x86, self.mono_class, field_name)
      [] self.variant = "MonoV2_x64" ->
            mono_v2_get_field(LayoutMonoV2x64, self.mono_class, field_name)
      [] self.variant = "Il2Cpp_2020" ->
            il2cpp_2020_get_field(self.mono_class, field_name)
      [] OTHER -> other_walker(ext, OpaqueOffset)

get_static_table(self, ext) ==
    CASE self.variant = "MonoV2_x86" ->
            mono_v2_get_static_table(LayoutMonoV2x86, self.mono_class)
      [] self.variant = "MonoV2_x64" ->
            mono_v2_get_static_table(LayoutMonoV2x64, self.mono_class)
      [] self.variant = "Il2Cpp_2020" ->
            il2cpp_2020_get_static_table(self.mono_class)
      [] OTHER -> other_walker(ext, OpaqueAddress)

get_parent(self, ext) ==
    CASE self.variant = "MonoV1_x86" ->
            as_class("MonoV1_x86", self, other_walker(ext, OpaqueClass))
      [] self.variant = "MonoV1_x64" ->
            as_class("MonoV1_x64", self, other_walker(ext, OpaqueClass))
      [] self.variant = "MonoV2_x86" ->
            as_class("MonoV2_x86", self, read_parent(LayoutMonoV2x86, self.mono_class))
      [] self.variant = "MonoV2_x64" ->
            as_class("MonoV2_x64", self, read_parent(LayoutMonoV2x64, self.mono_class))
      [] self.variant = "MonoV3_x64" ->
            as_class("MonoV3_x64", self, other_walker(ext, OpaqueClass))
      [] self.variant = "Il2Cpp_base" ->
            as_class("Il2Cpp_base", self, other_walker(ext, OpaqueClass))
      [] self.variant = "Il2Cpp_2019" ->
            as_class("Il2Cpp_2019", self, other_walker(ext, OpaqueClass))
      [] self.variant = "Il2Cpp_2020" ->
            as_class("Il2Cpp_2020", self, read_parent(LayoutIl2Cpp2020, self.mono_class))

---------------------------------------------------------------------------
(* Operations of the facade as actions.  A call that never returns leaves   *)
(* the caller hung: no later call is made.                                  *)

NoCall == [op |-> "none"]

\* the walkers modelled here decide their own result; a call into one of the
\* other walkers may fail or succeed
ModelledWalkers == {"MonoV2_x86", "MonoV2_x64", "Il2Cpp_2020_x64", "Il2Cpp_2020"}

Outcomes(variant) == IF variant \in ModelledWalkers THEN {TRUE} ELSE BOOLEAN

Running == last.op # "hang"

Hang(call) == [op |-> "hang", call |-> call]

DetectVersion ==
    /\ Running
    /\ last' = [op |-> "detect_version", res |-> detect_version]
    /\ UNCHANGED <<modules, sigAt, mem, manager, image, class>>

TryAttach ==
    /\ Running
    /\ ~manager.some
    /\ \E ext \in Outcomes(IF detect_version.some THEN detect_version.v ELSE "") :
          LET r == try_attach(ext) IN
          /\ manager' = r
          /\ last' = [op |-> "try_attach", arg |-> detect_version, res |-> r]
    /\ UNCHANGED <<modules, sigAt, mem, image, class>>

Attach(ver) ==
    /\ Running
    /\ ~manager.some
    /\ \E ext \in Outcomes(ver) :
          LET r == attach(ver, ext) IN
          /\ manager' = r
          /\ last' = [op |-> "attach", arg |-> ver, res |-> r]
    /\ UNCHANGED <<modules, sigAt, mem, image, class>>

GetImage(assembly_name) ==
    /\ Running
    /\ manager.some
    /\ \E ext \in Outcomes(manager.v.variant) :
          LET r == get_image(manager.v, assembly_name, ext) IN
          IF r = Diverges
          THEN /\ last' = Hang("get_image")
               /\ UNCHANGED image
          ELSE /\ image' = IF r.some THEN r ELSE image
               /\ last' = [op |-> "get_image", arg |-> assembly_name,
                           from |-> manager.v, res |-> r]
    /\ UNCHANGED <<modules, sigAt, mem, manager, class>>

GetDefaultImage ==
    /\ Running
    /\ manager.some
    /\ \E ext \in Outcomes(manager.v.variant) :
          LET r == get_default_image(manager.v, ext) IN
          IF r = Diverges
          THEN /\ last' = Hang("get_default_image")
               /\ UNCHANGED image
          ELSE /\ image' = IF r.some THEN r ELSE image
               /\ last' = [op |-> "get_default_image", arg |-> AssemblyCSharp,
                           from |-> manager.v, res |-> r]
    /\ UNCHANGED <<modules, sigAt, mem, manager, class>>

GetClass(class_name) ==
    /\ Running
    /\ image.some
    /\ \E ext \in Outcomes(image.v.variant) :
          LET r == get_class(image.v, class_name, ext) IN
          IF r = Diverges
          THEN /\ last' = Hang("get_class")
               /\ UNCHANGED class
          ELSE /\ class' = IF r.some THEN r ELSE class
               /\ last' = [op |-> "get_class", arg |-> class_name,
                           from |-> image.v, res |-> r]
    /\ UNCHANGED <<modules, sigAt, mem, manager, image>>

GetField(field_name) ==
    /\ Running
    /\ class.some
    /\ \E ext \in Outcomes(class.v.variant) :
          last' = [op |-> "get_field", arg |-> field_name, from |-> class.v,
                   res |-> get_field(class.v, field_name, ext)]
    /\ UNCHANGED <<modules, sigAt, mem, manager, image, class>>

GetStaticTable ==
    /\ Running
    /\ class.some
    /\ \E ext \in Outcomes(class.v.variant) :
          last' = [op |-> "get_static_table", from |-> class.v,
                   res |-> get_static_table(class.v, ext)]
    /\ UNCHANGED <<modules, sigAt, mem, manager, image, class>>

GetParent ==
    /\ Running
    /\ class.some
    /\ \E ext \in Outcomes(class.v.variant) :
          LET r == get_parent(class.v, ext) IN
          /\ class' = IF r.some THEN r ELSE class
          /\ last' = [op |-> "get_parent", from |-> class.v, res |-> r]
    /\ UNCHANGED <<modules, sigAt, mem, manager, image>>

---------------------------------------------------------------------------
(* Targets for version detection: which modules are loaded, the machine     *)
(* types, the Unity version string and the IL2CPP metadata registration.    *)

ModuleNames == {"GameAssembly.dll", "UnityPlayer.dll", "mono.dll", "mono-2.0-bdwgc.dll"}

ModuleBase ==
    ("UnityPlayer.dll" :> 8192) @@ ("GameAssembly.dll" :> 16384)
      @@ ("mono.dll" :> 32768) @@ ("mono-2.0-bdwgc.dll" :> 40960)

ModuleSize ==
    ("UnityPlayer.dll" :> 1024) @@ ("GameAssembly.dll" :> 4096)
      @@ ("mono.dll" :> 1024) @@ ("mono-2.0-bdwgc.dll" :> 4096)

MachineTypes == {"X86", "X86_64", "ARM64", "Unreadable"}

\* "2018.4" "2019.4" "2020.3" "2021.1" "2021.2" "2021.3" "2022.1" "5.6.1f"
\* "202100", and two strings with a code unit above U+00FF
VersionStrings ==
    << <<50, 48, 49, 56, 46, 52>>, <<50, 48, 49, 57, 46, 52>>,
       <<50, 48, 50, 48, 46, 51>>, <<50, 48, 50, 49, 46, 49>>,
       <<50, 48, 50, 49, 46, 50>>, <<50, 48, 50, 49, 46, 51>>,
       <<50, 48, 50, 50, 46, 49>>, <<53, 46, 54, 46, 49, 102>>,
       <<50, 48, 50, 49, 48, 48>>, <<50, 48, 50, 49, 46, 306>>,
       <<50, 48, 50, 49, 302, 50>> >>

\* "mono_assembly_getroot": another export of the Mono runtime
MonoAssemblyGetroot ==
    <<109, 111, 110, 111, 95, 97, 115, 115, 101, 109, 98, 108, 121, 95,
      103, 101, 116, 114, 111, 111, 116>>

\* the bytes of s stored from address a on
Bytes(a, s) == [x \in a..(a + Len(s) - 1) |-> s[x - a + 1]]

\* the u16 code units of s stored from address a on
Units(a, s) == [x \in {a + 2 * (i - 1) : i \in 1..Len(s)} |-> s[((x - a) \div 2) + 1]]

Empty == [x \in {} |-> 0]

\* GameAssembly.dll: the two attach signatures, their displacements and the
\* globals they address, holding the assemblies array and the type-info table
Il2CppAttachSigs(base) ==
    [SIG_64_ASSEMBLIES_TRG_IL2CPP |-> {base + 768},
     SIG_64_TYPE_INFO_DEFINITION_TABLE_TRG |-> {base + 1024}]

Il2CppAttachVal(base, assemblies, table) ==
    ((base + 780) :> 1264) @@ ((base + 1020) :> 1032)
      @@ ((base + 2048) :> assemblies) @@ ((base + 2056) :> table)

\* mono-2.0-bdwgc.dll: PE header, export directory with two named exports,
\* mono_assembly_foreach second, and the instruction that loads the list root
MonoAttachSigs(base) ==
    [SIG_MONO_64 |-> {base + 1552}, SIG_MONO_32_1 |-> {base + 1600},
     SIG_MONO_32_2 |-> {}]

MonoAttachVal(base, head) ==
    ((base + 60) :> 128) @@ ((base + 264) :> 512) @@ ((base + 248) :> 512)
      @@ ((base + 532) :> 2) @@ ((base + 540) :> 768) @@ ((base + 544) :> 832)
      @@ ((base + 832) :> 1024) @@ ((base + 836) :> 1056)
      @@ Bytes(base + 1024, MonoAssemblyGetroot)
      @@ Bytes(base + 1056, MonoAssemblyForeach)
      @@ ((base + 768) :> 1280) @@ ((base + 772) :> 1536)
      @@ ((base + 1555) :> 1513) @@ ((base + 1602) :> (base + 3072))
      @@ ((base + 3072) :> head)

NoSigs ==
    [SIG |-> {}, SIG_METADATA |-> {}, SIG_64_ASSEMBLIES_TRG_IL2CPP |-> {},
     SIG_64_TYPE_INFO_DEFINITION_TABLE_TRG |-> {}, SIG_MONO_64 |-> {},
     SIG_MONO_32_1 |-> {}, SIG_MONO_32_2 |-> {}]

\* the metadata registration: signature absent, version unreadable, or a
\* version reached through a positive or a negative displacement
MetaCases ==
    {[kind |-> "absent", disp |-> 0, ver |-> 0],
     [kind |-> "unreadable", disp |-> 65536, ver |-> 0]}
      \cup {[kind |-> "ok", disp |-> d, ver |-> v] : d \in {1024, -128}, v \in {26, 27, 29}}

DetectParams ==
    {p \in [present : SUBSET ModuleNames, um : MachineTypes, mm : MachineTypes,
            usig : {"found", "absent", "short"}, ver : 1..Len(VersionStrings),
            meta : MetaCases, attachable : BOOLEAN] :
        /\ "UnityPlayer.dll" \notin p.present
              => p.um = "X86_64" /\ p.usig = "found" /\ p.ver = 1
        /\ p.usig # "found" => p.ver = 1
        /\ "mono.dll" \notin p.present => p.mm = "X86_64"
        /\ "GameAssembly.dll" \notin p.present => p.meta.kind = "absent"
        /\ p.present \cap {"GameAssembly.dll", "mono-2.0-bdwgc.dll"} = {}
              => p.attachable}

DetectModules(p) ==
    [n \in p.present |->
        [base |-> ModuleBase[n], size |-> ModuleSize[n],
         machine |-> IF n = "UnityPlayer.dll" THEN p.um
                     ELSE IF n = "mono.dll" THEN p.mm ELSE "X86_64"]]

DetectSigs(p) ==
    LET up == ModuleBase["UnityPlayer.dll"]
        ga == ModuleBase["GameAssembly.dll"]
        mb == ModuleBase["mono-2.0-bdwgc.dll"] IN
    [SIG |-> IF "UnityPlayer.dll" \in p.present /\ p.usig # "absent"
             THEN {up + 256} ELSE {},
     SIG_METADATA |-> IF "GameAssembly.dll" \in p.present /\ p.meta.kind # "absent"
                      THEN {ga + 512} ELSE {}]
      @@ (IF "GameAssembly.dll" \in p.present /\ p.attachable
          THEN Il2CppAttachSigs(ga) ELSE [x \in {} |-> {}])
      @@ (IF "mono-2.0-bdwgc.dll" \in p.present /\ p.attachable
          THEN MonoAttachSigs(mb) ELSE [x \in {} |-> {}])
      @@ NoSigs

DetectMem(p) ==
    LET up == ModuleBase["UnityPlayer.dll"]
        ga == ModuleBase["GameAssembly.dll"]
        mb == ModuleBase["mono-2.0-bdwgc.dll"] IN
    [regions |->
        {<<ModuleBase[n],
           IF n = "UnityPlayer.dll" /\ p.usig = "short"
           THEN up + 256 + 30 + 4 ELSE ModuleBase[n] + ModuleSize[n]>> :
             n \in p.present},
     val |->
        (IF "UnityPlayer.dll" \in p.present
         THEN Units(up + 256 + 30, VersionStrings[p.ver]) ELSE Empty)
        @@ (IF "GameAssembly.dll" \in p.present /\ p.meta.kind # "absent"
            THEN ((ga + 515) :> p.meta.disp)
                   @@ ((ga + 515 + 4 + p.meta.disp + 4) :> p.meta.ver)
            ELSE Empty)
        @@ (IF "GameAssembly.dll" \in p.present
            THEN Il2CppAttachVal(ga, 0, 0) ELSE Empty)
        @@ (IF "mono-2.0-bdwgc.dll" \in p.present
            THEN MonoAttachVal(mb, 0) ELSE Empty)]

InitDetect ==
    /\ \E p \in DetectParams :
          /\ modules = DetectModules(p)
          /\ sigAt = DetectSigs(p)
          /\ mem = DetectMem(p)
    /\ manager = None
    /\ image = None
    /\ class = None
    /\ last = NoCall

NextDetect == DetectVersion \/ TryAttach

SpecDetect == InitDetect /\ [][NextDetect]_vars

---------------------------------------------------------------------------
(* Properties of version detection *)

Present(n) == n \in DOMAIN modules

MachineOf(n) == modules[n].machine

UnityRange == <<modules["UnityPlayer.dll"].base, modules["UnityPlayer.dll"].size>>

\* the six code units at match + 0x1E, when the signature is found and read
UnityUnits ==
    LET hit == scan_process_range("SIG", UnityRange) IN
    IF hit.some THEN read_u16x6(hit.v + 30) ELSE Err

UnitySegments == split(narrow(UnityUnits.v))

UnityMajor == get_version_no(UnitySegments[1])

UnityMinor == get_version_no(UnitySegments[2])

GameAssemblyRange ==
    <<modules["GameAssembly.dll"].base, modules["GameAssembly.dll"].size>>

MetadataHit == scan_process_range("SIG_METADATA", GameAssemblyRange)

\* the i32 at (resolved target + 4): the displacement is the i32 at match + 3
MetadataVersion ==
    LET addr == MetadataHit.v + 3 IN read(addr + 4 + Val(addr) + 4, 4)

Detected == last.op = "detect_version"

\* C1: with GameAssembly.dll and a 64-bit UnityPlayer.dll present and the Unity
\* version string found, detect_version returns Il2Cpp_base_x64 for major < 2019,
\* Il2Cpp_2019_x64 for major = 2019, and for major > 2019 Il2Cpp_2019_x64 when the
\* metadata signature is absent or the metadata version is < 27 and
\* Il2Cpp_2020_x64 when it is >= 27.
C1_Il2CppSelection ==
    (/\ Detected
     /\ Present("GameAssembly.dll") /\ Present("UnityPlayer.dll")
     /\ MachineOf("UnityPlayer.dll") \in {"X86_64", "ARM64"}
     /\ UnityUnits.ok)
    => /\ UnityMajor < 2019 => last.res = Some("Il2Cpp_base_x64")
       /\ UnityMajor = 2019 => last.res = Some("Il2Cpp_2019_x64")
       /\ UnityMajor > 2019 =>
            /\ ~MetadataHit.some => last.res = Some("Il2Cpp_2019_x64")
            /\ (MetadataHit.some /\ MetadataVersion.ok) =>
                  /\ MetadataVersion.v < 27 => last.res = Some("Il2Cpp_2019_x64")
                  /\ MetadataVersion.v >= 27 => last.res = Some("Il2Cpp_2020_x64")

\* C1 witness: Unity 2021.3, metadata version exactly 27 behind a negative
\* displacement, detected as Il2Cpp_2020_x64
C1_Witness ==
    /\ Detected
    /\ Present("GameAssembly.dll") /\ Present("UnityPlayer.dll")
    /\ MachineOf("UnityPlayer.dll") = "X86_64"
    /\ UnityUnits.ok /\ UnityUnits.v = <<50, 48, 50, 49, 46, 51>>
    /\ MetadataHit.some /\ Val(MetadataHit.v + 3) < 0
    /\ MetadataVersion.ok /\ MetadataVersion.v = 27
    /\ last.res = Some("Il2Cpp_2020_x64")

\* C2: whenever GameAssembly.dll is present, detect_version and try_attach return
\* None if UnityPlayer.dll is missing, if its machine type is x86 or unreadable,
\* or if the Unity version signature is not found, whatever Mono modules are
\* loaded.
C2_Il2CppRejected ==
    (/\ last.op \in {"detect_version", "try_attach"}
     /\ Present("GameAssembly.dll")
     /\ \/ ~Present("UnityPlayer.dll")
        \/ MachineOf("UnityPlayer.dll") \in {"X86", "Unreadable"}
        \/ ~scan_process_range("SIG", UnityRange).some)
    => last.res = None

\* C2 witness: a 32-bit UnityPlayer.dll whose version string is readable, both
\* Mono modules loaded as well, and try_attach returned None
C2_Witness ==
    /\ last.op = "try_attach"
    /\ ModuleNames \subseteq DOMAIN modules
    /\ MachineOf("UnityPlayer.dll") = "X86"
    /\ UnityUnits.ok
    /\ last.res = None

MonoV2Branch ==
    /\ ~Present("GameAssembly.dll") /\ ~Present("mono.dll")
    /\ Present("mono-2.0-bdwgc.dll") /\ Present("UnityPlayer.dll")
    /\ MachineOf("UnityPlayer.dll") # "Unreadable"
    /\ UnityUnits.ok /\ Len(UnitySegments) >= 2

\* C3: in the mono-2.0-bdwgc.dll branch detect_version returns MonoV3_x64 exactly
\* when (major = 2021 and minor >= 2) or major > 2021, whatever the machine type;
\* otherwise MonoV2_x86 on x86 and MonoV2_x64 on x64.  "2021.2" gives MonoV3_x64
\* and "2021.1" on x64 gives MonoV2_x64.
C3_MonoV2V3Selection ==
    (Detected /\ MonoV2Branch)
    => /\ (last.res = Some("MonoV3_x64"))
             <=> ((UnityMajor = 2021 /\ UnityMinor >= 2) \/ UnityMajor > 2021)
       /\ last.res # Some("MonoV3_x64") =>
             /\ MachineOf("UnityPlayer.dll") = "X86" => last.res = Some("MonoV2_x86")
             /\ MachineOf("UnityPlayer.dll") = "X86_64" => last.res = Some("MonoV2_x64")
       /\ UnityUnits.v = <<50, 48, 50, 49, 46, 50>> => last.res = Some("MonoV3_x64")
       /\ (UnityUnits.v = <<50, 48, 50, 49, 46, 49>>
             /\ MachineOf("UnityPlayer.dll") = "X86_64")
            => last.res = Some("MonoV2_x64")

\* C3 witness: Unity "2021.2" on a 32-bit UnityPlayer.dll detected as MonoV3_x64
C3_Witness ==
    /\ Detected /\ MonoV2Branch
    /\ UnityUnits.v = <<50, 48, 50, 49, 46, 50>>
    /\ MachineOf("UnityPlayer.dll") = "X86"
    /\ last.res = Some("MonoV3_x64")

\* C4: with GameAssembly.dll absent and mono.dll present, detect_version returns
\* MonoV1_x86 when mono.dll is x86 and MonoV1_x64 for any other readable machine
\* type, whatever UnityPlayer.dll and mono-2.0-bdwgc.dll are; with none of the
\* three runtime modules present it returns None.
C4_MonoV1Selection ==
    (Detected /\ ~Present("GameAssembly.dll"))
    => /\ (Present("mono.dll") /\ MachineOf("mono.dll") = "X86")
             => last.res = Some("MonoV1_x86")
       /\ (Present("mono.dll") /\ MachineOf("mono.dll") \in {"X86_64", "ARM64"})
             => last.res = Some("MonoV1_x64")
       /\ (~Present("mono.dll") /\ ~Present("mono-2.0-bdwgc.dll"))
             => last.res = None

\* C4 witness: mono.dll of another machine type next to mono-2.0-bdwgc.dll and no
\* UnityPlayer.dll, detected as MonoV1_x64
C4_Witness ==
    /\ Detected
    /\ DOMAIN modules = {"mono.dll", "mono-2.0-bdwgc.dll"}
    /\ MachineOf("mono.dll") = "ARM64"
    /\ last.res = Some("MonoV1_x64")

---------------------------------------------------------------------------
(* Targets for the walkers: a Unity game whose runtime structures are laid  *)
(* out in the heap of the target process with the byte offsets of the       *)
(* walker that reads them.  A target is described by the runtime variant,   *)
(* the assemblies of the root list, the classes of every image, the fields  *)
(* of every class and the static table of every class.                      *)

MaxAssemblies == 3
MaxClasses == 3
MaxFields == 3
MaxVtableSize == 2

Variants == {"Il2Cpp_2020", "MonoV2_x64", "MonoV2_x86"}

LayoutOf(variant) ==
    CASE variant = "Il2Cpp_2020" -> LayoutIl2Cpp2020
      [] variant = "MonoV2_x64" -> LayoutMonoV2x64
      [] variant = "MonoV2_x86" -> LayoutMonoV2x86

IsMono(variant) == variant \in {"MonoV2_x64", "MonoV2_x86"}

\* "A", "Player", "Enemy", "Base", "hp", "mp", "h"
NameA == <<65>>
Player == <<80, 108, 97, 121, 101, 114>>
Enemy == <<69, 110, 101, 109, 121>>
Base == <<66, 97, 115, 101>>
hp == <<104, 112>>
mp == <<109, 112>>
h == <<104>>

SeqUpTo(S, n) == UNION {[1..k -> S] : k \in 0..n}

RECURSIVE MergeAll(_)
MergeAll(fs) ==
    IF fs = {} THEN Empty
    ELSE LET f == CHOOSE g \in fs : TRUE IN f @@ MergeAll(fs \ {f})

\* an address outside every readable region
Unmapped(i) == 1048576 + 4096 * i

\* where the heap objects live
SlotAt(i) == 65536 + 8 * i
NodeAt(i) == 66560 + 32 * i
AsmAt(i) == 69632 + 256 * i
AsmNameAt(i) == 73728 + 256 * i
ImgAt(i) == 81920 + 2048 * i
HandleAt(i) == ImgAt(i) + 1536
TypeInfoAt(i) == 98304 + 8 * i
BucketAt(L, b) == 99328 + L.ptr * b
ClsAt(j) == 102400 + 512 * j
ClsNameAt(j) == 106496 + 256 * j
FieldAt(L, j, k) == 110592 + 256 * j + L.fld_size * k
FldNameAt(k) == 114688 + 256 * k
RtiAt(j) == 118784 + 64 * j
VtAt(j) == 122880 + 256 * j
StaticAt(j) == 131072 + 64 * j
CutAt == StaticAt(64)

AsmKinds == {"A", "CS", "null", "bad_assembly", "bad_name", "bad_image"}

\* "bad_node": the array slot (IL2CPP) or the list node (Mono) is not mapped;
\* "short_name": the name "Assembly-CSharp" with its NUL, and nothing mapped
\* after the NUL
FaultKinds ==
    {"A", "CS", "bad_node", "bad_assembly", "bad_name", "short_name", "bad_image"}

ClassKinds(variant) ==
    {"Player", "Player_no_fields", "Enemy", "bad_name", "bad_class"}
      \cup (IF IsMono(variant) THEN {} ELSE {"null"})

\* slots of the IL2CPP type-info table; "bad_slot": the slot is not mapped
SlotKinds == {"Player", "Enemy", "null", "bad_slot", "bad_class"}

FieldKinds == {"hp", "mp", "empty", "bad_name", "bad_entry"}

\* the detection-relevant part of the target: modules, machine type, version
WalkTarget(variant) ==
    [present |-> IF IsMono(variant)
                 THEN {"UnityPlayer.dll", "mono-2.0-bdwgc.dll"}
                 ELSE {"UnityPlayer.dll", "GameAssembly.dll"},
     um |-> IF variant = "MonoV2_x86" THEN "X86" ELSE "X86_64",
     mm |-> "X86_64", usig |-> "found",
     ver |-> IF IsMono(variant) THEN 2 ELSE 6,
     meta |-> IF IsMono(variant) THEN [kind |-> "absent", disp |-> 0, ver |-> 0]
              ELSE [kind |-> "ok", disp |-> 1024, ver |-> 27],
     attachable |-> TRUE]

\* the root list: the IL2CPP array of assembly pointers, the Mono GList
AsmPtr(w, i) ==
    CASE w.asms[i] = "null" -> NULL
      [] w.asms[i] = "bad_assembly" -> Unmapped(i)
      [] OTHER -> AsmAt(i)

HasAssembly(w, i) == w.asms[i] \notin {"null", "bad_assembly", "bad_node"}

HasImage(w, i) ==
    w.asms[i] \in {"A", "CS", "long", "x127", "tail", "short_name", "no_handle"}

\* n bytes 'x'
XName(n) == [i \in 1..n |-> 120]

\* the bytes at the name address of an assembly, a class or a field: "long"
\* fills the 128-byte window, "x127" leaves its last byte NUL, "tail" has
\* bytes after the NUL
AsmNameBytes(kind) ==
    CASE kind = "A" -> NameA
      [] kind = "long" -> XName(NameWindow)
      [] kind = "x127" -> XName(NameWindow - 1)
      [] kind = "tail" -> AssemblyCSharp \o <<0, 122>>
      [] OTHER -> AssemblyCSharp

ClsNameBytes(kind) ==
    CASE kind = "Enemy" -> Enemy
      [] kind = "long" -> XName(NameWindow)
      [] kind = "x127" -> XName(NameWindow - 1)
      [] kind = "tail" -> Player \o <<0, 122>>
      [] OTHER -> Player

RootRegions(w) ==
    LET L == LayoutOf(w.variant)
        n == Len(w.asms) IN
    (IF IsMono(w.variant)
     THEN {<<NodeAt(i), NodeAt(i) + L.glist_size>> :
              i \in {x \in 1..n : w.asms[x] # "bad_node"}}
     ELSE {<<SlotAt(i - 1), SlotAt(i)>> : i \in {x \in 1..n : w.asms[x] # "bad_node"}}
            \cup {<<SlotAt(n), SlotAt(n + 1)>>})
      \cup {<<AsmAt(i), AsmAt(i) + L.asm_size>> : i \in {x \in 1..n : HasAssembly(w, x)}}
      \cup {<<AsmNameAt(i),
              AsmNameAt(i) + (IF w.asms[i] = "short_name"
                              THEN Len(AssemblyCSharp) + 1 ELSE NameWindow)>> :
               i \in {x \in 1..n : HasAssembly(w, x) /\ w.asms[x] # "bad_name"}}
      \cup {<<ImgAt(i), ImgAt(i) + L.img_size>> : i \in {x \in 1..n : HasImage(w, x)}}
      \cup (IF IsMono(w.variant) THEN {}
            ELSE {<<HandleAt(i), HandleAt(i) + 4>> :
                     i \in {x \in 1..n : HasImage(w, x) /\ w.asms[x] # "no_handle"}})

RootVal(w) ==
    LET L == LayoutOf(w.variant)
        n == Len(w.asms)
        link(i) ==
            IF IsMono(w.variant)
            THEN ((NodeAt(i) + L.glist_data) :> AsmPtr(w, i))
                   @@ ((NodeAt(i) + L.glist_next) :>
                         (IF i < n THEN NodeAt(i + 1)
                          ELSE IF w.asm_tail > 0 THEN NodeAt(w.asm_tail) ELSE NULL))
            ELSE (SlotAt(i - 1) :> AsmPtr(w, i))
        assembly(i) ==
            IF ~HasAssembly(w, i) THEN Empty
            ELSE ((AsmAt(i) + L.asm_name) :>
                     (IF w.asms[i] = "bad_name" THEN Unmapped(8 + i) ELSE AsmNameAt(i)))
                   @@ ((AsmAt(i) + L.asm_image) :>
                         (IF HasImage(w, i) THEN ImgAt(i) ELSE Unmapped(16 + i)))
                   @@ (IF w.asms[i] = "bad_name" THEN Empty
                       ELSE Bytes(AsmNameAt(i), AsmNameBytes(w.asms[i])))
        img(i) ==
            IF ~HasImage(w, i) THEN Empty
            ELSE ((ImgAt(i) + L.img_assembly) :> AsmAt(i))
                   @@ (IF IsMono(w.variant)
                       THEN ((ImgAt(i) + L.img_cache_size) :> 2)
                              @@ ((ImgAt(i) + L.img_cache_table) :> BucketAt(L, 0))
                       ELSE ((ImgAt(i) + L.img_type_count) :> Len(w.classes))
                              @@ ((ImgAt(i) + L.img_metadata_handle) :> HandleAt(i))
                              @@ (HandleAt(i) :> 2))
    IN MergeAll({link(i) : i \in 1..n}) @@ MergeAll({assembly(i) : i \in 1..n})
         @@ MergeAll({img(i) : i \in 1..n})

\* the classes: the IL2CPP type-info table (the image's classes start at slot
\* 2), the Mono class cache with two buckets (class j hangs in bucket
\* (j - 1) % 2), and the common parent class at ClsAt(0)
\* the parent pointer of every class of the table: the class "Base", null,
\* an unmapped address, or a descriptor of which only the first 64 bytes are
\* mapped
ParentKinds == {"base", "null", "unmapped", "cut"}

ParentPtr(w) ==
    CASE w.parent = "base" -> ClsAt(0)
      [] w.parent = "null" -> NULL
      [] w.parent = "unmapped" -> Unmapped(48)
      [] w.parent = "cut" -> CutAt

ClsPtr(w, j) ==
    IF j > Len(w.classes) THEN NULL
    ELSE CASE w.classes[j] = "null" -> NULL
           [] w.classes[j] = "bad_class" -> Unmapped(24 + j)
           [] OTHER -> ClsAt(j)

HasClass(w, j) == w.classes[j] \notin {"null", "bad_class", "bad_slot"}

HasFields(w, j) == HasClass(w, j) /\ w.classes[j] # "Player_no_fields"

ClassRegions(w) ==
    LET L == LayoutOf(w.variant)
        m == Len(w.classes) IN
    (IF IsMono(w.variant)
     THEN {<<BucketAt(L, 0), BucketAt(L, 2)>>}
     ELSE {<<TypeInfoAt(0), TypeInfoAt(2)>>}
            \cup {<<TypeInfoAt(2 + j - 1), TypeInfoAt(2 + j)>> :
                     j \in {x \in 1..m : w.classes[x] # "bad_slot"}})
      \cup (IF w.parent = "cut" THEN {<<CutAt, CutAt + 64>>} ELSE {})
      \cup {<<ClsAt(0), ClsAt(0) + L.cls_size>>,
            <<ClsNameAt(0), ClsNameAt(0) + NameWindow>>}
      \cup {<<ClsAt(j), ClsAt(j) + L.cls_size>> : j \in {x \in 1..m : HasClass(w, x)}}
      \cup {<<ClsNameAt(j), ClsNameAt(j) + NameWindow>> :
               j \in {x \in 1..m : HasClass(w, x) /\ w.classes[x] # "bad_name"}}

ClassVal(w) ==
    LET L == LayoutOf(w.variant)
        m == Len(w.classes)
        slot(j) ==
            IF IsMono(w.variant)
            THEN (IF j <= 2 THEN (BucketAt(L, j - 1) :> ClsPtr(w, j)) ELSE Empty)
            ELSE (TypeInfoAt(2 + j - 1) :> ClsPtr(w, j))
        cls(j) ==
            IF ~HasClass(w, j) THEN Empty
            ELSE ((ClsAt(j) + L.cls_name) :>
                     (IF w.classes[j] = "bad_name" THEN Unmapped(32 + j)
                      ELSE ClsNameAt(j)))
                   @@ ((ClsAt(j) + L.cls_fields) :>
                         (IF HasFields(w, j) THEN FieldAt(L, j, 0) ELSE NULL))
                   @@ ((ClsAt(j) + L.cls_field_count) :> Len(w.fields))
                   @@ ((ClsAt(j) + L.cls_parent) :> ParentPtr(w))
                   @@ (IF IsMono(w.variant)
                       THEN ((ClsAt(j) + L.cls_vtable_size) :> w.vs)
                              @@ ((ClsAt(j) + L.cls_runtime_info) :>
                                    (IF w.rti = "bad" THEN Unmapped(40 + j) ELSE RtiAt(j)))
                              @@ ((ClsAt(j) + L.cls_next_class_cache) :>
                                    (IF j + 2 > m /\ w.cls_tail > 0
                                     THEN ClsPtr(w, w.cls_tail) ELSE ClsPtr(w, j + 2)))
                       ELSE ((ClsAt(j) + L.cls_static_fields) :>
                               (IF w.slot = "value" THEN StaticAt(j) ELSE NULL)))
                   @@ (IF w.classes[j] = "bad_name" THEN Empty
                       ELSE Bytes(ClsNameAt(j), ClsNameBytes(w.classes[j])))
    IN ((ClsAt(0) + L.cls_name) :> ClsNameAt(0)) @@ Bytes(ClsNameAt(0), Base)
         @@ MergeAll({slot(j) : j \in 1..m}) @@ MergeAll({cls(j) : j \in 1..m})

\* the fields of every class that has a field array; the name "hp" is followed
\* by a NUL and a further byte, the empty name is a NUL followed by "hp"
FieldOffset(k) == IF k = 2 THEN -8 ELSE 16 * k

FieldNameBytes(kind) ==
    CASE kind = "hp" -> <<104, 112, 0, 120>>
      [] kind = "mp" -> mp
      [] kind = "empty" -> <<0, 104, 112>>
      [] kind = "long" -> XName(NameWindow)
      [] kind = "x127" -> XName(NameWindow - 1)

HasFieldName(kind) == kind \in {"hp", "mp", "empty", "long", "x127"}

FieldRegions(w) ==
    LET L == LayoutOf(w.variant)
        owners == {j \in 1..Len(w.classes) : HasFields(w, j)}
        n == Len(w.fields) IN
    {<<FieldAt(L, j, k - 1), FieldAt(L, j, k - 1) + L.fld_size>> :
        j \in owners, k \in {x \in 1..n : w.fields[x] # "bad_entry"}}
      \cup {<<FldNameAt(k), FldNameAt(k) + NameWindow>> :
               k \in {x \in 1..n : HasFieldName(w.fields[x])}}

FieldVal(w) ==
    LET L == LayoutOf(w.variant)
        owners == {j \in 1..Len(w.classes) : HasFields(w, j)}
        n == Len(w.fields)
        entry(j, k) ==
            IF w.fields[k] = "bad_entry" THEN Empty
            ELSE ((FieldAt(L, j, k - 1) + L.fld_name) :>
                     (IF w.fields[k] = "bad_name" THEN Unmapped(48 + k)
                      ELSE FldNameAt(k)))
                   @@ ((FieldAt(L, j, k - 1) + L.fld_offset) :> FieldOffset(k))
        name(k) ==
            IF HasFieldName(w.fields[k])
            THEN Bytes(FldNameAt(k), FieldNameBytes(w.fields[k])) ELSE Empty
    IN MergeAll({entry(j, k) : j \in owners, k \in 1..n})
         @@ MergeAll({name(k) : k \in 1..n})

\* the static tables: for Mono the MonoClassRuntimeInfo and the MonoVTable of
\* every class, whose pointer-sized slots all hold different values
VtEnd(w, L) ==
    L.vtable_sizeof - L.ptr + L.ptr * (w.vs + (IF w.slot = "unreadable" THEN 0 ELSE 2))

StaticRegions(w) ==
    LET L == LayoutOf(w.variant)
        owners == {j \in 1..Len(w.classes) : HasClass(w, j)} IN
    IF ~IsMono(w.variant) THEN {}
    ELSE (IF w.rti = "bad" THEN {}
          ELSE {<<RtiAt(j), RtiAt(j) + L.rti_size>> : j \in owners})
           \cup {<<VtAt(j), VtAt(j) + VtEnd(w, L)>> : j \in owners}

StaticVal(w) ==
    LET L == LayoutOf(w.variant)
        owners == {j \in 1..Len(w.classes) : HasClass(w, j)}
        target == L.vtable_sizeof - L.ptr + L.ptr * w.vs
        table(j) ==
            ((RtiAt(j) + L.rti_domain_vtables) :> VtAt(j))
              @@ [a \in {VtAt(j) + 4 * x : x \in 0..((VtEnd(w, L) \div 4) - 1)} |->
                     IF a = VtAt(j) + target /\ w.slot = "null" THEN NULL
                     ELSE 262144 + 256 * j + (a - VtAt(j))]
    IN IF ~IsMono(w.variant) THEN Empty ELSE MergeAll({table(j) : j \in owners})

WalkMem(w) ==
    LET p == WalkTarget(w.variant)
        root ==
            IF IsMono(w.variant)
            THEN (ModuleBase["mono-2.0-bdwgc.dll"] + 3072) :>
                    (IF Len(w.asms) = 0 THEN NULL ELSE NodeAt(1))
            ELSE ((ModuleBase["GameAssembly.dll"] + 2048) :> SlotAt(0))
                   @@ ((ModuleBase["GameAssembly.dll"] + 2056) :> TypeInfoAt(0)) IN
    [regions |-> DetectMem(p).regions \cup RootRegions(w) \cup ClassRegions(w)
                   \cup FieldRegions(w) \cup StaticRegions(w),
     val |-> root @@ RootVal(w) @@ ClassVal(w) @@ FieldVal(w) @@ StaticVal(w)
               @@ DetectMem(p).val]

\* asm_tail and cls_tail: 0 when the GList and the class chains end at a null
\* pointer, k when the last node points back to node k
DefaultWorld(variant) ==
    [variant |-> variant, asms |-> <<"A", "CS">>, classes |-> <<"Enemy", "Player">>,
     fields |-> <<"mp", "hp">>, rti |-> "ok", vs |-> 1, slot |-> "value",
     parent |-> "base", asm_tail |-> 0, cls_tail |-> 0]

InitWalk(worlds) ==
    /\ \E w \in worlds :
          /\ modules = DetectModules(WalkTarget(w.variant))
          /\ sigAt = DetectSigs(WalkTarget(w.variant))
          /\ mem = WalkMem(w)
    /\ manager = None
    /\ image = None
    /\ class = None
    /\ last = NoCall

AssemblyNames == {NameA, AssemblyCSharp}
ClassNames == {Player, Enemy}
FieldNames == {hp, h, <<>>}


\* get_image: every root list of up to MaxAssemblies entries
ImageWorlds ==
    {[DefaultWorld(v) EXCEPT !.asms = a] :
        v \in Variants, a \in SeqUpTo(AsmKinds, MaxAssemblies)}

InitImage == InitWalk(ImageWorlds)

NextImage ==
    \/ TryAttach
    \/ \E assembly_name \in AssemblyNames : GetImage(assembly_name)
    \/ GetDefaultImage

SpecImage == InitImage /\ [][NextImage]_vars

\* get_class: every class table of up to MaxClasses entries
ClassWorlds ==
    UNION {{[DefaultWorld(v) EXCEPT !.asms = <<"CS">>, !.classes = c] :
               c \in SeqUpTo(ClassKinds(v), MaxClasses)} : v \in Variants}

InitClass == InitWalk(ClassWorlds)

NextClass ==
    \/ TryAttach
    \/ GetDefaultImage
    \/ \E class_name \in ClassNames : GetClass(class_name)
    \/ GetParent

SpecClass == InitClass /\ [][NextClass]_vars

\* get_field and get_static_table: every field array of up to MaxFields
\* entries, and every static table
FieldWorlds ==
    {[DefaultWorld(v) EXCEPT !.asms = <<"CS">>, !.classes = <<"Player">>, !.fields = f] :
        v \in Variants, f \in SeqUpTo(FieldKinds, MaxFields)}
      \cup
    {[DefaultWorld(v) EXCEPT !.asms = <<"CS">>, !.classes = <<"Player">>,
                             !.rti = r, !.vs = n, !.slot = s] :
        v \in Variants, r \in {"ok", "bad"}, n \in 0..MaxVtableSize,
        s \in {"value", "null", "unreadable"}}

InitField == InitWalk(FieldWorlds)

NextField ==
    \/ TryAttach
    \/ GetDefaultImage
    \/ GetClass(Player)
    \/ \E field_name \in FieldNames : GetField(field_name)
    \/ GetStaticTable

SpecField == InitField /\ [][NextField]_vars

\* the facade over every runtime variant: the three targets above, and one
\* target detected as each of the other five variants
FacadeTargets ==
    {[present |-> {"mono.dll"}, um |-> "X86_64", mm |-> m, usig |-> "found", ver |-> 1,
      meta |-> [kind |-> "absent", disp |-> 0, ver |-> 0], attachable |-> TRUE] :
        m \in {"X86", "X86_64"}}
      \cup
    {[present |-> {"UnityPlayer.dll", "mono-2.0-bdwgc.dll"}, um |-> "X86_64",
      mm |-> "X86_64", usig |-> "found", ver |-> 5,
      meta |-> [kind |-> "absent", disp |-> 0, ver |-> 0], attachable |-> TRUE]}
      \cup
    {[present |-> {"UnityPlayer.dll", "GameAssembly.dll"}, um |-> "X86_64",
      mm |-> "X86_64", usig |-> "found", ver |-> v,
      meta |-> [kind |-> "absent", disp |-> 0, ver |-> 0], attachable |-> TRUE] :
        v \in {1, 2}}

InitFacade ==
    \/ InitWalk({DefaultWorld(v) : v \in Variants})
    \/ /\ \E p \in FacadeTargets :
             /\ modules = DetectModules(p)
             /\ sigAt = DetectSigs(p)
             /\ mem = DetectMem(p)
       /\ manager = None
       /\ image = None
       /\ class = None
       /\ last = NoCall

NextFacade ==
    \/ TryAttach
    \/ \E ver \in MonoVersion : Attach(ver)
    \/ \E assembly_name \in AssemblyNames : GetImage(assembly_name)
    \/ GetDefaultImage
    \/ \E class_name \in ClassNames : GetClass(class_name)
    \/ \E field_name \in FieldNames : GetField(field_name)
    \/ GetStaticTable
    \/ GetParent

SpecFacade == InitFacade /\ [][NextFacade]_vars

---------------------------------------------------------------------------
(* Properties of the facade *)

\* the UnityManager variant that corresponds to a MonoVersion
VariantOf(ver) ==
    CASE ver = "Il2Cpp_base_x64" -> "Il2Cpp_base"
      [] ver = "Il2Cpp_2019_x64" -> "Il2Cpp_2019"
      [] ver = "Il2Cpp_2020_x64" -> "Il2Cpp_2020"
      [] OTHER -> ver

\* C5: attach(process, v) returns the manager variant corresponding to v,
\* try_attach the one corresponding to the detected version; every image from
\* get_image, every class from get_class and every class from get_parent has
\* the variant of the object it was obtained from, so the handles held after any
\* sequence of facade calls all carry the manager's variant.
C5_VariantPreserved ==
    /\ (last.op = "attach" /\ last.res.some)
          => last.res.v.variant = VariantOf(last.arg)
    /\ (last.op = "try_attach" /\ last.res.some)
          => last.arg.some /\ last.res.v.variant = VariantOf(last.arg.v)
    /\ (last.op \in {"get_image", "get_default_image", "get_class", "get_parent"}
          /\ last.res.some)
          => last.res.v.variant = last.from.variant
    /\ image.some => manager.some /\ image.v.variant = manager.v.variant
    /\ class.some => image.some /\ class.v.variant = image.v.variant

\* C5 witness: a parent class obtained through the whole chain on a 32-bit Mono
\* v2 target attached by try_attach
C5_Witness ==
    /\ last.op = "get_parent" /\ last.res.some
    /\ last.res.v.variant = "MonoV2_x86"
    /\ last.res.v.mono_class.name = ClsNameAt(0)
    /\ manager.some /\ manager.v.variant = "MonoV2_x86"
    /\ image.some /\ image.v.variant = "MonoV2_x86"
    /\ class = last.res

---------------------------------------------------------------------------
(* Properties of the walkers, stated over the memory of the target *)

\* the bytes at a up to the first NUL
CStr(a) == [i \in 1..c_strlen(a, 0) |-> Val(a + i - 1)]

ImageCall == last.op \in {"get_image", "get_default_image"}

\* slot i of the IL2CPP assemblies array of the manager the call was made on
Il2CppSlot(i) == Val(last.from.mono_module.assemblies + 8 * i)

Il2CppSlotName(i) == CStr(Val(Il2CppSlot(i) + LayoutIl2Cpp2020.asm_name))

Il2CppSlotImage(i) ==
    read_image(LayoutIl2Cpp2020, Val(Il2CppSlot(i) + LayoutIl2Cpp2020.asm_image))

FirstNullSlot == Min({i \in 0..(MaxAssemblies + 1) : Il2CppSlot(i) = NULL})

\* C8: IL2CPP 2020 get_image goes through the slots of the assemblies array in
\* increasing index order from the attached root and returns None at the first
\* null slot: a returned image belongs to the first slot with the queried name
\* and that slot lies before the first null slot; if no slot before the first
\* null slot has the queried name the result is None.
C8_Il2CppStopsAtNullSlot ==
    (ImageCall /\ last.from.variant = "Il2Cpp_2020")
    => /\ last.res.some =>
            \E i \in 0..(FirstNullSlot - 1) :
               /\ Il2CppSlotName(i) = last.arg
               /\ \A j \in 0..(i - 1) : Il2CppSlotName(j) # last.arg
               /\ Il2CppSlotImage(i).ok
               /\ last.res.v.mono_image = Il2CppSlotImage(i).v
               /\ last.res.v.mono_image.assembly = Il2CppSlot(i)
       /\ (\A i \in 0..(FirstNullSlot - 1) : Il2CppSlotName(i) # last.arg)
            => last.res = None

\* C8 witness: slots "A", null, "Assembly-CSharp"; get_image("Assembly-CSharp")
\* returned None
C8_Witness ==
    /\ last.op = "get_image" /\ last.from.variant = "Il2Cpp_2020"
    /\ last.arg = AssemblyCSharp
    /\ Il2CppSlotName(0) = NameA
    /\ Il2CppSlot(1) = NULL
    /\ Il2CppSlotName(2) = AssemblyCSharp /\ Il2CppSlotImage(2).ok
    /\ last.res = None

MonoCallLayout == LayoutOf(last.from.variant)

\* node i of the Mono assembly list: the root read twice, then the next links
RECURSIVE GListNode(_)
GListNode(i) ==
    IF i = 0 THEN Val(last.from.mono_module.assemblies)
    ELSE Val(GListNode(i - 1) + MonoCallLayout.glist_next)

GListData(i) == Val(GListNode(i) + MonoCallLayout.glist_data)

GListName(i) == CStr(Val(GListData(i) + MonoCallLayout.asm_name))

GListImage(i) ==
    read_image(MonoCallLayout, Val(GListData(i) + MonoCallLayout.asm_image))

\* nodes 0..i are readable
NodesReadable(i) ==
    \A j \in 0..i : Readable(GListNode(j), MonoCallLayout.glist_size)

\* the assemblies of nodes 0..i can be read together with their names
AssembliesReadable(i) ==
    \A j \in 0..i :
       /\ Readable(GListData(j), MonoCallLayout.asm_size)
       /\ Readable(Val(GListData(j) + MonoCallLayout.asm_name), NameWindow)

\* C9: Mono v2 get_image reads the root pointer twice to reach the first GList
\* node and follows next: when the node i is the first whose assembly name equals
\* the query (every node up to i readable with non-null data) the result is the
\* Image read through that assembly's image pointer; a result is always of that
\* form; and when a node with a null data pointer is reached with no match
\* before it the result is None.
C9_MonoFirstMatchingNode ==
    (ImageCall /\ IsMono(last.from.variant))
    => /\ last.res.some =>
            \E i \in 0..MaxAssemblies :
               /\ NodesReadable(i)
               /\ \A j \in 0..i : GListData(j) # NULL
               /\ GListName(i) = last.arg
               /\ \A j \in 0..(i - 1) : GListName(j) # last.arg
               /\ GListImage(i).ok
               /\ last.res.v.mono_image = GListImage(i).v
               /\ last.res.v.mono_image.assembly = GListData(i)
       /\ \A i \in 0..MaxAssemblies :
            (/\ NodesReadable(i) /\ AssembliesReadable(i)
             /\ \A j \in 0..i : GListData(j) # NULL
             /\ GListName(i) = last.arg
             /\ \A j \in 0..(i - 1) : GListName(j) # last.arg
             /\ GListImage(i).ok)
            => last.res = Some([variant |-> last.from.variant,
                                mono_module |-> last.from.mono_module,
                                mono_image |-> GListImage(i).v])
       /\ \A k \in 0..MaxAssemblies :
            (/\ NodesReadable(k)
             /\ GListData(k) = NULL
             /\ \A j \in 0..(k - 1) : GListData(j) # NULL /\ GListName(j) # last.arg)
            => last.res = None

\* C9 witness: a list of three nodes on a 32-bit target whose second node is
\* "Assembly-CSharp"; get_default_image returned the Image linked from node 2
C9_Witness ==
    /\ last.op = "get_default_image" /\ last.from.variant = "MonoV2_x86"
    /\ NodesReadable(2)
    /\ GListName(0) = NameA /\ GListName(1) = AssemblyCSharp
    /\ GListData(2) # NULL
    /\ last.res.some
    /\ last.res.v.mono_image.assembly = GListData(1)
    /\ last.res.v.mono_image = GListImage(1).v

\* slot i of the image's part of the IL2CPP type-info table
Il2CppClassSlot(i) ==
    Val(last.from.mono_module.type_info_definition_table
          + 8 * Val(last.from.mono_image.metadata_handle) + 8 * i)

\* the d-th class of the chain that starts at head; NULL once the chain has
\* ended at a null pointer or at a class that cannot be read
RECURSIVE ChainClass(_, _, _)
ChainClass(L, head, d) ==
    IF d = 0 THEN head
    ELSE LET prev == ChainClass(L, head, d - 1) IN
         IF prev = NULL \/ ~Readable(prev, L.cls_size) THEN NULL
         ELSE Val(prev + L.cls_next_class_cache)

\* the head of bucket b of the Mono class cache of the image
MonoBucketHead(L, b) ==
    LET a == last.from.mono_image.cache_table + L.ptr * b IN
    IF Readable(a, L.ptr) THEN Val(a) ELSE NULL

\* the classes of the image of the call, in enumeration order: position ->
\* address (IL2CPP: slot index; Mono v2: bucket by bucket, each chain in order)
EnumeratedClass(pos) ==
    IF IsMono(last.from.variant)
    THEN ChainClass(MonoCallLayout,
                    MonoBucketHead(MonoCallLayout, pos \div (MaxClasses + 1)),
                    pos % (MaxClasses + 1))
    ELSE Il2CppClassSlot(pos)

EnumeratedPositions ==
    IF IsMono(last.from.variant)
    THEN 0..(last.from.mono_image.cache_size * (MaxClasses + 1) - 1)
    ELSE 0..(last.from.mono_image.type_count - 1)

\* the class at address a can be read, is called name and has a field array
RealMatch(L, a, name) ==
    /\ a # NULL
    /\ Readable(a, L.cls_size)
    /\ Readable(Val(a + L.cls_name), NameWindow)
    /\ CStr(Val(a + L.cls_name)) = name
    /\ Val(a + L.cls_fields) # NULL

\* C6: every class returned by get_class(name) of the IL2CPP 2020 and Mono v2
\* walkers has a non-null fields pointer and the NUL-truncated name `name`, and
\* it is the first class in enumeration order that has both; when no class has
\* both the result is None.  A class with the name and a null fields pointer is
\* passed over.
C6_FirstRealMatch ==
    (last.op = "get_class" /\ last.from.variant \in Variants)
    => LET L == LayoutOf(last.from.variant)
           hits == {pos \in EnumeratedPositions :
                       RealMatch(L, EnumeratedClass(pos), last.arg)} IN
       /\ last.res.some =>
             /\ last.res.v.mono_class.fields # NULL
             /\ CStr(last.res.v.mono_class.name) = last.arg
       /\ IF hits = {} THEN last.res = None
          ELSE /\ last.res.some
               /\ last.res.v.variant = last.from.variant
               /\ last.res.v.mono_class = read_class(L, EnumeratedClass(Min(hits))).v
               /\ last.res.v.mono_class.fields = Val(EnumeratedClass(Min(hits)) + L.cls_fields)

\* C6 witness: the first class of the IL2CPP table is called "Player" and has
\* no fields, a later one is "Player" with fields, and get_class("Player")
\* returned the later one
C6_Witness ==
    /\ last.op = "get_class" /\ last.from.variant = "Il2Cpp_2020"
    /\ last.arg = Player
    /\ Readable(Il2CppClassSlot(0), LayoutIl2Cpp2020.cls_size)
    /\ CStr(Val(Il2CppClassSlot(0) + LayoutIl2Cpp2020.cls_name)) = Player
    /\ Val(Il2CppClassSlot(0) + LayoutIl2Cpp2020.cls_fields) = NULL
    /\ last.res.some
    /\ last.res.v.mono_class.fields # NULL
    /\ last.res.v.mono_class.fields # Val(Il2CppClassSlot(1) + LayoutIl2Cpp2020.cls_fields)

\* entry k of the field array of the class the call was made on
FieldEntry(L, k) == last.from.mono_class.fields + L.fld_size * k

\* C7: whenever get_field(c, n) returns Some(o), one of the field_count entries
\* of c has a name whose bytes up to the first NUL equal n and has offset o; in
\* particular a result for the empty n comes from an entry whose name starts
\* with a NUL byte.
C7_FieldNameAndOffset ==
    (last.op = "get_field" /\ last.from.variant \in Variants /\ last.res.some)
    => LET L == LayoutOf(last.from.variant) IN
       \E k \in 0..(last.from.mono_class.field_count - 1) :
          /\ Readable(FieldEntry(L, k), L.fld_size)
          /\ Readable(Val(FieldEntry(L, k) + L.fld_name), 1)
          /\ CStr(Val(FieldEntry(L, k) + L.fld_name)) = last.arg
          /\ i32_as_u64(Val(FieldEntry(L, k) + L.fld_offset)) = last.res.v

\* the address of the static-table slot of a Mono v2 class
StaticSlot(variant, domain_vtables, vtable_size) ==
    IF variant = "MonoV2_x64"
    THEN domain_vtables + 72 - 8 + 8 * vtable_size
    ELSE domain_vtables + 44 - 4 + 4 * vtable_size

\* C10: Mono v2 get_static_table returns the pointer read at
\* domain_vtables + sizeof(MonoVTable) - 8 + 8 * vtable_size (x86:
\* domain_vtables + sizeof(MonoVTable) - 4 + 4 * vtable_size), domain_vtables
\* being read from the MonoClassRuntimeInfo at the class's runtime_info; it
\* returns None when that structure or the slot cannot be read or the slot holds
\* null.
C10_MonoStaticTable ==
    (last.op = "get_static_table" /\ IsMono(last.from.variant))
    => LET x64 == last.from.variant = "MonoV2_x64"
           c == last.from.mono_class
           info == c.runtime_info
           domain_vtables == Val(info + (IF x64 THEN 8 ELSE 4))
           slot == StaticSlot(last.from.variant, domain_vtables, c.vtable_size) IN
       IF ~Readable(info, IF x64 THEN 16 ELSE 8) THEN last.res = None
       ELSE IF ~Readable(slot, IF x64 THEN 8 ELSE 4) THEN last.res = None
       ELSE IF Val(slot) = NULL THEN last.res = None
       ELSE last.res = Some(Val(slot))

\* C10 witness: a 64-bit class with vtable_size 2 whose static table was
\* returned from the slot at domain_vtables + 80
C10_Witness ==
    /\ last.op = "get_static_table" /\ last.from.variant = "MonoV2_x64"
    /\ last.from.mono_class.vtable_size = 2
    /\ Readable(last.from.mono_class.runtime_info, 16)
    /\ last.res.some
    /\ last.res.v = Val(Val(last.from.mono_class.runtime_info + 8) + 80)
    /\ last.res.v # Val(Val(last.from.mono_class.runtime_info + 8) + 88)

---------------------------------------------------------------------------
(* A target that keeps running while the caller holds its snapshots: the    *)
(* memory of the target moves from one image to another between two calls.  *)

\* the targets of one runtime that differ in the static table of Player
StaleWorlds ==
    {[DefaultWorld(v) EXCEPT !.asms = <<"CS">>, !.classes = <<"Player">>,
                             !.rti = r, !.slot = s] :
        v \in Variants, r \in {"ok", "bad"}, s \in {"value", "null", "unreadable"}}

InitStale == InitWalk(StaleWorlds)

\* the target rewrites its own memory; the caller's handles are not touched
TargetChanges ==
    /\ Running
    /\ \E w \in StaleWorlds :
          /\ modules = DetectModules(WalkTarget(w.variant))
          /\ mem' = WalkMem(w)
          /\ mem' # mem
    /\ UNCHANGED <<modules, sigAt, manager, image, class, last>>

NextStale ==
    \/ TryAttach
    \/ GetDefaultImage
    \/ GetClass(Player)
    \/ GetStaticTable
    \/ TargetChanges

SpecStale == InitStale /\ [][NextStale]_vars

\* C11: IL2CPP 2020 get_static_table returns Some(static_fields) exactly when
\* the static_fields pointer of the class snapshot is non-null and None
\* otherwise; the result is a function of the snapshot alone, whatever the
\* target's memory has become since the snapshot was taken.
C11_Il2CppStaticTableFromSnapshot ==
    (last.op = "get_static_table" /\ last.from.variant = "Il2Cpp_2020")
    => /\ last.res.some <=> (last.from.mono_class.static_fields # NULL)
       /\ last.res.some => last.res.v = last.from.mono_class.static_fields

\* the static_fields pointer the target holds now for the class at address a
LiveStaticFields == Val(ClsAt(1) + LayoutIl2Cpp2020.cls_static_fields)

\* C11 witness: the snapshot's pointer was returned although the target has
\* cleared the pointer since, and the table itself is not readable
C11_Witness ==
    /\ last.op = "get_static_table" /\ last.from.variant = "Il2Cpp_2020"
    /\ last.res.some
    /\ last.res.v = StaticAt(1)
    /\ LiveStaticFields = NULL
    /\ ~Readable(last.res.v, 8)

\* C11 witness: None from a snapshot with a null pointer although the target
\* holds a table for the class now
C11_WitnessNull ==
    /\ last.op = "get_static_table" /\ last.from.variant = "Il2Cpp_2020"
    /\ last.res = None
    /\ last.from.mono_class.static_fields = NULL
    /\ LiveStaticFields = StaticAt(1)

---------------------------------------------------------------------------
(* get_parent over every kind of parent pointer *)

ParentWorlds ==
    {[DefaultWorld(v) EXCEPT !.asms = <<"CS">>, !.classes = c, !.parent = p] :
        v \in Variants, p \in ParentKinds,
        c \in SeqUpTo({"Player", "Enemy"}, MaxClasses) \ {<<>>}}

InitParent == InitWalk(ParentWorlds)

NextParent ==
    \/ TryAttach
    \/ GetDefaultImage
    \/ \E class_name \in ClassNames : GetClass(class_name)
    \/ GetParent

SpecParent == InitParent /\ [][NextParent]_vars

\* C12: get_parent (IL2CPP 2020 and Mono v2) returns None whenever the parent
\* pointer of the class is null; otherwise it returns the class descriptor read
\* at the parent address, and None when that descriptor cannot be read.
C12_ParentReadOrNone ==
    (last.op = "get_parent" /\ last.from.variant \in Variants)
    => LET L == LayoutOf(last.from.variant)
           p == last.from.mono_class.parent IN
       IF p = NULL THEN last.res = None
       ELSE IF ~Readable(p, L.cls_size) THEN last.res = None
       ELSE /\ last.res.some
            /\ last.res.v.variant = last.from.variant
            /\ last.res.v.mono_module = last.from.mono_module
            /\ last.res.v.mono_class.name = Val(p + L.cls_name)
            /\ last.res.v.mono_class.fields = Val(p + L.cls_fields)
            /\ last.res.v.mono_class.field_count = Val(p + L.cls_field_count)
            /\ last.res.v.mono_class.parent = Val(p + L.cls_parent)

\* C12 witness: the parent of Player was read at its address, and it is the
\* class "Base"
C12_Witness ==
    /\ last.op = "get_parent" /\ last.from.variant \in Variants
    /\ last.from.mono_class.parent = ClsAt(0)
    /\ last.res.some
    /\ CStr(last.res.v.mono_class.name) = Base

\* C12 witness: None from a class whose parent pointer is null
C12_WitnessNull ==
    /\ last.op = "get_parent" /\ last.from.variant \in Variants
    /\ last.from.mono_class.parent = NULL
    /\ last.res = None

\* C12 witness: None from a class whose parent descriptor is only partly mapped
C12_WitnessUnreadable ==
    /\ last.op = "get_parent" /\ last.from.variant \in Variants
    /\ last.from.mono_class.parent = CutAt
    /\ Readable(CutAt, 64)
    /\ last.res = None

---------------------------------------------------------------------------
(* The wait_* wrappers: retry(|| probe).await.  The task of the caller is    *)
(* one of: about to attempt ("ready"), suspended until the next tick of the *)
(* host after an attempt that returned None ("yielded"), or completed.      *)

MaxPolls == 2

\* retry: where the loop goes after an attempt that returned r
retry(r) == IF r.some THEN "done" ELSE "yielded"

WaitCalls ==
    {"wait_attach", "wait_get_image", "wait_get_default_image", "wait_get_class",
     "wait_get_field", "wait_get_static_table", "wait_get_parent"}

\* mutant of wait_probe: wait_get_image retries get_default_image
wait_probe_default_image(call, self, arg, ext) ==
    CASE call = "wait_attach" -> attach(arg, ext)
      [] call = "wait_get_image" -> get_default_image(self, ext)
      [] call = "wait_get_default_image" -> get_default_image(self, ext)
      [] call = "wait_get_class" -> get_class(self, arg, ext)
      [] call = "wait_get_field" -> get_field(self, arg, ext)
      [] call = "wait_get_static_table" -> get_static_table(self, ext)
      [] call = "wait_get_parent" -> get_parent(self, ext)

\* the closure each wrapper hands to retry
wait_probe(call, self, arg, ext) ==
    CASE call = "wait_attach" -> attach(arg, ext)
      [] call = "wait_get_image" -> get_image(self, arg, ext)
      [] call = "wait_get_default_image" -> get_default_image(self, ext)
      [] call = "wait_get_class" -> get_class(self, arg, ext)
      [] call = "wait_get_field" -> get_field(self, arg, ext)
      [] call = "wait_get_static_table" -> get_static_table(self, ext)
      [] call = "wait_get_parent" -> get_parent(self, ext)

\* the value the wrapper is called on
WaitSelf(call) ==
    CASE call = "wait_attach" -> None
      [] call \in {"wait_get_image", "wait_get_default_image"} -> manager
      [] call = "wait_get_class" -> image
      [] OTHER -> class

WaitArgs(call) ==
    CASE call = "wait_attach" -> {"MonoV2_x86", "MonoV2_x64", "Il2Cpp_2020_x64"}
      [] call = "wait_get_image" -> {NameA}
      [] call = "wait_get_class" -> {Player}
      [] call = "wait_get_field" -> {hp}
      [] OTHER -> {<<>>}

Pending == last.op = "wait" /\ last.pc # "done"

\* the caller awaits a wrapper: nothing else is called until it completes
WaitStart(call) ==
    /\ Running
    /\ ~Pending
    /\ IF call = "wait_attach" THEN ~manager.some ELSE WaitSelf(call).some
    /\ \E arg \in WaitArgs(call) :
          last' = [op |-> "wait", call |-> call, arg |-> arg,
                   from |-> IF call = "wait_attach" THEN None ELSE WaitSelf(call).v,
                   pc |-> "ready", attempts |-> 0, res |-> None]
    /\ UNCHANGED <<modules, sigAt, mem, manager, image, class>>

\* one attempt of the loop
WaitPoll ==
    /\ Pending
    /\ last.pc = "ready"
    /\ LET r == wait_probe(last.call, last.from, last.arg, TRUE) IN
       IF r = Diverges
       THEN /\ last' = Hang(last.call)
            /\ UNCHANGED <<manager, image, class>>
       ELSE /\ last' = [last EXCEPT !.pc = retry(r), !.res = r,
                                    !.attempts = IF @ < MaxPolls THEN @ + 1 ELSE @]
            /\ manager' = IF r.some /\ last.call = "wait_attach" THEN r ELSE manager
            /\ image' = IF r.some /\ last.call \in {"wait_get_image",
                                                    "wait_get_default_image"}
                        THEN r ELSE image
            /\ class' = IF r.some /\ last.call \in {"wait_get_class", "wait_get_parent"}
                        THEN r ELSE class
    /\ UNCHANGED <<modules, sigAt, mem>>

\* the host resumes the suspended task on its next tick
Tick ==
    /\ Pending
    /\ last.pc = "yielded"
    /\ last' = [last EXCEPT !.pc = "ready"]
    /\ UNCHANGED <<modules, sigAt, mem, manager, image, class>>

\* the target while it starts up: no runtime module loaded yet, the runtime
\* loaded with no assembly, with the assembly "A" only, with everything, and
\* with Player lacking fields, static table and parent
WaitStages == {"unloaded", "empty", "A", "full", "bare"}

StageWorld(v, s) ==
    CASE s = "empty" -> [DefaultWorld(v) EXCEPT !.asms = <<>>]
      [] s = "A" -> [DefaultWorld(v) EXCEPT !.asms = <<"A">>]
      [] s = "bare" -> [DefaultWorld(v) EXCEPT !.fields = <<>>, !.slot = "null",
                                                !.parent = "null"]
      [] OTHER -> DefaultWorld(v)

StageTarget(v, s) ==
    IF s = "unloaded"
    THEN [modules |-> Empty, sigAt |-> NoSigs, mem |-> [regions |-> {}, val |-> Empty]]
    ELSE [modules |-> DetectModules(WalkTarget(v)), sigAt |-> DetectSigs(WalkTarget(v)),
          mem |-> WalkMem(StageWorld(v, s))]

\* every stage of every runtime
StageTargets == [v \in Variants, s \in WaitStages |-> StageTarget(v, s)]

Target == [modules |-> modules, sigAt |-> sigAt, mem |-> mem]

InitWait ==
    /\ \E v \in Variants, s \in WaitStages :
          /\ modules = StageTargets[v, s].modules
          /\ sigAt = StageTargets[v, s].sigAt
          /\ mem = StageTargets[v, s].mem
    /\ manager = None
    /\ image = None
    /\ class = None
    /\ last = NoCall

\* the target moves to another stage of the runtime it runs; nothing is
\* unloaded again
TargetMoves ==
    /\ Running
    /\ \E v \in Variants, s \in WaitStages, t \in WaitStages \ {"unloaded"} :
          /\ s # t
          /\ Target = StageTargets[v, s]
          /\ modules' = StageTargets[v, t].modules
          /\ sigAt' = StageTargets[v, t].sigAt
          /\ mem' = StageTargets[v, t].mem
    /\ UNCHANGED <<manager, image, class, last>>

NextWait ==
    \/ \E call \in WaitCalls : WaitStart(call)
    \/ WaitPoll
    \/ Tick
    \/ TargetMoves

WaitDone == last.op = "wait" /\ last.pc = "done"

Yielded == Pending /\ last.pc = "yielded"

Resumed == Pending /\ last.pc = "ready"

\* the host keeps ticking and runs a task that is ready: weak fairness of Tick
\* and of WaitPoll, the latter written out with Resumed for
\* ENABLED <<WaitPoll>>_vars (an attempt is possible exactly when the task is
\* ready, and it always moves the task)
SpecWait ==
    /\ InitWait /\ [][NextWait]_vars
    /\ WF_vars(Tick)
    /\ (<>[]Resumed => []<><<WaitPoll>>_vars)

\* what the synchronous operation of the pending wrapper returns on the
\* target as it is now
SyncResult ==
    CASE last.call = "wait_attach" -> attach(last.arg, TRUE)
      [] last.call = "wait_get_image" -> get_image(last.from, last.arg, TRUE)
      [] last.call = "wait_get_default_image" ->
            get_image(last.from, AssemblyCSharp, TRUE)
      [] last.call = "wait_get_class" -> get_class(last.from, last.arg, TRUE)
      [] last.call = "wait_get_field" -> get_field(last.from, last.arg, TRUE)
      [] last.call = "wait_get_static_table" -> get_static_table(last.from, TRUE)
      [] last.call = "wait_get_parent" -> get_parent(last.from, TRUE)

WouldSucceed == Pending => SyncResult.some

---------------------------------------------------------------------------
(* Read failures inside get_class and get_field *)

\* every class table, and every field array of the class Player
LookupWorlds ==
    ClassWorlds
      \cup {[DefaultWorld(v) EXCEPT !.asms = <<"CS">>, !.classes = <<"Player">>,
                                    !.fields = f] :
               v \in Variants, f \in SeqUpTo(FieldKinds, MaxFields)}

InitLookup == InitWalk(LookupWorlds)

NextLookup ==
    \/ TryAttach
    \/ GetDefaultImage
    \/ \E class_name \in ClassNames : GetClass(class_name)
    \/ \E field_name \in FieldNames : GetField(field_name)

SpecLookup == InitLookup /\ [][NextLookup]_vars

\* reading the class at address a fails: its descriptor or its name window is
\* not readable
ClassReadFails(L, a) ==
    /\ a # NULL
    /\ \/ ~Readable(a, L.cls_size)
       \/ ~Readable(Val(a + L.cls_name), NameWindow)

\* reading field entry k fails: the entry or its name window is not readable
FieldReadFails(L, k) ==
    \/ ~Readable(FieldEntry(L, k), L.fld_size)
    \/ ~Readable(Val(FieldEntry(L, k) + L.fld_name), NameWindow)

\* field entry k can be read and compares equal to name (a Mono v2 name that
\* cannot be read compares as the empty name)
FieldMatches(L, k, name) ==
    /\ Readable(FieldEntry(L, k), L.fld_size)
    /\ IF Readable(Val(FieldEntry(L, k) + L.fld_name), NameWindow)
       THEN CStr(Val(FieldEntry(L, k) + L.fld_name)) = name
       ELSE IsMono(last.from.variant) /\ name = <<>>

ClassHits ==
    {pos \in EnumeratedPositions :
        RealMatch(LayoutOf(last.from.variant), EnumeratedClass(pos), last.arg)}

FieldHits ==
    {k \in 0..(last.from.mono_class.field_count - 1) :
        FieldMatches(LayoutOf(last.from.variant), k, last.arg)}

C14_WitnessField ==
    /\ last.op = "get_field" /\ last.from.variant \in Variants
    /\ last.res.some
    /\ ~Readable(FieldEntry(LayoutOf(last.from.variant), 0),
                 LayoutOf(last.from.variant).fld_size)
    /\ Min(FieldHits) = 1

---------------------------------------------------------------------------
(* Mono v2 lists that loop back on themselves *)

MonoVariants == {"MonoV2_x64", "MonoV2_x86"}

\* every GList of up to MaxAssemblies readable nodes and every class table of
\* up to MaxClasses readable classes, ending at null or pointing back to one of
\* the nodes
CyclicWorlds ==
    UNION {{[DefaultWorld(v) EXCEPT !.asms = a, !.asm_tail = t] : t \in 0..Len(a)} :
              v \in MonoVariants, a \in SeqUpTo({"A", "CS"}, MaxAssemblies)}
      \cup
    UNION {{[DefaultWorld(v) EXCEPT !.asms = <<"CS">>, !.classes = c, !.cls_tail = t] :
               t \in 0..Len(c)} :
              v \in MonoVariants,
              c \in SeqUpTo({"Player", "Enemy", "Player_no_fields"}, MaxClasses)}

InitCyclic == InitWalk(CyclicWorlds)

NextCyclic ==
    \/ TryAttach
    \/ \E assembly_name \in AssemblyNames : GetImage(assembly_name)
    \/ GetDefaultImage
    \/ \E class_name \in ClassNames : GetClass(class_name)

SpecCyclic == InitCyclic /\ [][NextCyclic]_vars

\* C15 as stated: on any target memory, a GList or a bucket chain that loops
\* back on itself included, Mono v2 get_image and get_class return (Some or
\* None) after finitely many reads.
C15_MonoLookupsReturn ==
    ~(/\ last.op = "hang"
      /\ last.call \in {"get_image", "get_default_image", "get_class"}
      /\ manager.v.variant \in MonoVariants)

---------------------------------------------------------------------------
(* Names that fill the 128-byte window *)

MaxNamed == 2

\* every list of up to MaxNamed assemblies, classes and fields whose names
\* fill the window, leave its last byte NUL, or have bytes after the NUL
NameWorlds ==
    {[DefaultWorld(v) EXCEPT !.asms = a] :
        v \in Variants, a \in SeqUpTo({"long", "x127"}, MaxNamed)}
      \cup
    {[DefaultWorld(v) EXCEPT !.asms = <<"CS">>, !.classes = c] :
        v \in Variants, c \in SeqUpTo({"long", "tail"}, MaxNamed)}
      \cup
    {[DefaultWorld(v) EXCEPT !.asms = <<"CS">>, !.classes = <<"Player">>, !.fields = f] :
        v \in Variants, f \in SeqUpTo({"long", "x127"}, MaxNamed)}

InitName == InitWalk(NameWorlds)

\* queries of 127, 128 and 129 bytes
LongQueries == {XName(NameWindow - 1), XName(NameWindow), XName(NameWindow + 1)}

NextName ==
    \/ TryAttach
    \/ \E assembly_name \in LongQueries : GetImage(assembly_name)
    \/ GetDefaultImage
    \/ \E class_name \in LongQueries \cup {Player} : GetClass(class_name)
    \/ \E field_name \in LongQueries : GetField(field_name)

SpecName == InitName /\ [][NextName]_vars

\* the first 128 bytes at a, cut at the first NUL
WindowCut(a) ==
    LET nul == {i \in 0..(NameWindow - 1) : Val(a + i) = 0}
        n == IF nul = {} THEN NameWindow ELSE Min(nul) IN
    [i \in 1..n |-> Val(a + i - 1)]

\* entry i of the root list of the call: it exists, and its assembly
AsmEntry(i) ==
    IF IsMono(last.from.variant)
    THEN GListNode(i) # NULL /\ GListData(i) # NULL
    ELSE i < FirstNullSlot

AsmAddr(i) == IF IsMono(last.from.variant) THEN GListData(i) ELSE Il2CppSlot(i)

AsmHits ==
    {i \in 0..(MaxAssemblies - 1) :
        /\ AsmEntry(i)
        /\ WindowCut(Val(AsmAddr(i) + MonoCallLayout.asm_name)) = last.arg}

ClassWindowHits ==
    {pos \in EnumeratedPositions :
        /\ EnumeratedClass(pos) # NULL
        /\ WindowCut(Val(EnumeratedClass(pos) + MonoCallLayout.cls_name)) = last.arg
        /\ Val(EnumeratedClass(pos) + MonoCallLayout.cls_fields) # NULL}

FieldWindowHits ==
    {k \in 0..(last.from.mono_class.field_count - 1) :
        WindowCut(Val(FieldEntry(MonoCallLayout, k) + MonoCallLayout.fld_name)) = last.arg}

\* C16: get_image, get_class and get_field compare the query with the first
\* 128 bytes at the name address cut at the first NUL.  On readable lists the
\* lookup succeeds exactly when some entry's cut window equals the query, and
\* returns the first such entry: a name without NUL in its window matches the
\* query of exactly those 128 bytes and no other, a query of more than 128
\* bytes matches nothing, and bytes after the first NUL play no part.
C16_NameWindow ==
    /\ (ImageCall /\ last.from.variant \in Variants)
       => /\ Len(last.arg) > NameWindow => last.res = None
          /\ last.res.some <=> AsmHits # {}
          /\ last.res.some => last.res.v.mono_image.assembly = AsmAddr(Min(AsmHits))
    /\ (last.op = "get_class" /\ last.from.variant \in Variants)
       => /\ Len(last.arg) > NameWindow => last.res = None
          /\ last.res.some <=> ClassWindowHits # {}
          /\ last.res.some => WindowCut(last.res.v.mono_class.name) = last.arg
    /\ (last.op = "get_field" /\ last.from.variant \in Variants)
       => /\ Len(last.arg) > NameWindow => last.res = None
          /\ IF FieldWindowHits = {} THEN last.res = None
             ELSE last.res =
                     Some(i32_as_u64(Val(FieldEntry(MonoCallLayout, Min(FieldWindowHits))
                                           + MonoCallLayout.fld_offset)))

\* no NUL among the first 128 bytes at a
NoNul(a) == \A i \in 0..(NameWindow - 1) : Val(a + i) # 0

\* C16 witness: an assembly whose name has no NUL in its window was found by
\* the query of exactly those 128 bytes
C16_Witness ==
    /\ last.op = "get_image" /\ last.from.variant \in Variants
    /\ Len(last.arg) = NameWindow
    /\ last.res.some
    /\ NoNul(Val(last.res.v.mono_image.assembly + MonoCallLayout.asm_name))

\* C16 witness: the query of 129 bytes found nothing although it starts with
\* the 128 bytes of the first class's window
C16_WitnessLonger ==
    /\ last.op = "get_class" /\ last.from.variant \in Variants
    /\ Len(last.arg) = NameWindow + 1
    /\ EnumeratedClass(0) # NULL
    /\ NoNul(Val(EnumeratedClass(0) + MonoCallLayout.cls_name))
    /\ last.res = None

\* C16 witness: a class was found by "Player" although its name is followed,
\* after the NUL, by a further byte
C16_WitnessTail ==
    /\ last.op = "get_class" /\ last.from.variant \in Variants
    /\ last.arg = Player
    /\ last.res.some
    /\ Val(last.res.v.mono_class.name + Len(Player)) = 0
    /\ Val(last.res.v.mono_class.name + Len(Player) + 1) # 0

\* C16 witness: the query of 127 bytes did not find the field whose name fills
\* the window, and found the one whose 128th byte is NUL
C16_WitnessShorter ==
    /\ last.op = "get_field" /\ last.from.variant \in Variants
    /\ Len(last.arg) = NameWindow - 1
    /\ NoNul(Val(FieldEntry(MonoCallLayout, 0) + MonoCallLayout.fld_name))
    /\ FieldWindowHits = {1}
    /\ last.res.some

---------------------------------------------------------------------------
(* MonoPtr64 with the widths of its arithmetic.  A 64-bit quantity is four  *)
(* 16-bit limbs, high first; the host's usize is 32 bits wide (wasm32) or   *)
(* 64, and an overflowing multiplication wraps in a release build and       *)
(* panics in a debug build.                                                 *)

Limb == 65536

Wide(hi, lo) == <<0, 0, hi, lo>>

\* a * k for a small k: the 64-bit product and whether it overflowed 64 bits
MulWide(a, k) ==
    LET d == a[4] * k
        c == a[3] * k + d \div Limb
        b == a[2] * k + c \div Limb
        t == a[1] * k + b \div Limb IN
    [v |-> <<t % Limb, b % Limb, c % Limb, d % Limb>>, over |-> t \div Limb > 0]

\* Address64 + u64: the 64-bit sum and whether it overflowed
AddWide(a, b) ==
    LET d == a[4] + b[4]
        c == a[3] + b[3] + d \div Limb
        e == a[2] + b[2] + c \div Limb
        t == a[1] + b[1] + e \div Limb IN
    [v |-> <<t % Limb, e % Limb, c % Limb, d % Limb>>, over |-> t \div Limb > 0]

Panic == [ok |-> FALSE, panic |-> TRUE]

Builds ==
    [usize : {32, 64}, profile : {"release", "debug"}, address_add : {"wrap", "panic"}]

\* idx * mem::size_of::<T>() in usize
usize_mul(build, idx, size) ==
    LET m == MulWide(idx, size)
        over == IF build.usize = 64 THEN m.over ELSE m.over \/ m.v[1] # 0 \/ m.v[2] # 0
        v == IF build.usize = 64 THEN m.v ELSE <<0, 0, m.v[3], m.v[4]>> IN
    IF over /\ build.profile = "debug" THEN Panic ELSE Ok(v)

\* count * mem::size_of::<T>() as u64
u64_mul(build, count, size) ==
    LET m == MulWide(count, size) IN
    IF m.over /\ build.profile = "debug" THEN Panic ELSE Ok(m.v)

\* Address64 + u64 and Address + u64, implemented outside this module
address_add(build, a, b) ==
    LET s == AddWide(a, b) IN
    IF s.over /\ build.address_add = "panic" THEN Panic ELSE Ok(s.v)

\* process.read at a 64-bit address: nothing is mapped above 2^31
read_wide(a, size) ==
    IF a[1] = 0 /\ a[2] = 0 /\ a[3] < 32768 THEN read(a[3] * Limb + a[4], size) ELSE Err

\* MonoPtr64::offset(count)
MonoPtr64_offset(build, p, count, size) ==
    LET m == u64_mul(build, count, size) IN
    IF ~m.ok THEN Panic ELSE address_add(build, p, m.v)

\* MonoPtr64::read(process)
MonoPtr64_read(p, size) == read_wide(p, size)

\* MonoPtr64::index(process, idx)
MonoPtr64_index(build, p, idx, size) ==
    LET m == usize_mul(build, idx, size) IN
    IF ~m.ok THEN Panic
    ELSE LET a == address_add(build, p, m.v) IN
         IF ~a.ok THEN Panic ELSE read_wide(a.v, size)

\* p.offset(i).read(process)
MonoPtr64_offset_read(build, p, i, size) ==
    LET q == MonoPtr64_offset(build, p, i, size) IN
    IF ~q.ok THEN Panic ELSE MonoPtr64_read(q.v, size)

\* pointers into the root array of the target, and one 16 bytes below 2^64
PtrValues ==
    {Wide(1, 0), Wide(1, 8), Wide(1, 16), <<65535, 65535, 65535, 65520>>}

\* indices 0..3, 2^29, 2^29 + 1, 2^32 - 1, and (usize of 64 bits) 2^32 and
\* 2^61 + 1
IndexValues ==
    {Wide(0, k) : k \in 0..3}
      \cup {Wide(8192, 0), Wide(8192, 1), Wide(65535, 65535),
            <<0, 1, 0, 0>>, <<8192, 0, 0, 1>>}

ElemSizes == {4, 8, 16, 312}

FitsUsize(build, i) == build.usize = 64 \/ (i[1] = 0 /\ i[2] = 0)

\* a build, a pointer, an index and an element size, on the default target
InitPtr ==
    /\ modules = DetectModules(WalkTarget("Il2Cpp_2020"))
    /\ sigAt = DetectSigs(WalkTarget("Il2Cpp_2020"))
    /\ mem = WalkMem(DefaultWorld("Il2Cpp_2020"))
    /\ manager = None
    /\ image = None
    /\ class = None
    /\ \E build \in Builds, p \in PtrValues, i \in IndexValues, size \in ElemSizes :
          /\ FitsUsize(build, i)
          /\ last = [op |-> "ptr_input", build |-> build, p |-> p, i |-> i,
                     size |-> size]

\* the element is read both ways
PtrRead ==
    /\ last.op = "ptr_input"
    /\ last' = [op |-> "ptr", build |-> last.build, p |-> last.p, i |-> last.i,
                size |-> last.size,
                index |-> MonoPtr64_index(last.build, last.p, last.i, last.size),
                offset_read |->
                    MonoPtr64_offset_read(last.build, last.p, last.i, last.size)]
    /\ UNCHANGED <<modules, sigAt, mem, manager, image, class>>

NextPtr == PtrRead

SpecPtr == InitPtr /\ [][NextPtr]_vars

\* C17 as stated: p.index(process, i) and p.offset(i).read(process) yield the
\* same result (the same value or both an error), also when i * sizeof(T) or
\* the sum exceeds the pointer's width.
C17_IndexIsOffsetRead ==
    last.op = "ptr" => last.index = last.offset_read

\* where usize has 64 bits the two agree on every input
PtrAgreeOn64 ==
    (last.op = "ptr" /\ last.build.usize = 64) => last.index = last.offset_read

\* the two agree whenever the product fits 32 bits
PtrAgreeSmall ==
    (last.op = "ptr" /\ ~MulWide(last.i, last.size).over
       /\ MulWide(last.i, last.size).v[1] = 0 /\ MulWide(last.i, last.size).v[2] = 0)
    => last.index = last.offset_read


(* ------------------------------------------------------------------ *)
(* get_image: a failed read ends the lookup *)

\* every root list of up to MaxAssemblies entries whose entries may fail at
\* each step of the traversal
FaultWorlds ==
    {[DefaultWorld(v) EXCEPT !.asms = a] :
        v \in Variants, a \in SeqUpTo(FaultKinds, MaxAssemblies)}

InitFault == InitWalk(FaultWorlds)

NextFault ==
    \/ TryAttach
    \/ \E assembly_name \in AssemblyNames : GetImage(assembly_name)
    \/ GetDefaultImage

SpecFault == InitFault /\ [][NextFault]_vars

\* the array slot (IL2CPP) or the list node (Mono v2) of entry i can be read
EntryReadable(i) ==
    IF IsMono(last.from.variant)
    THEN /\ Readable(last.from.mono_module.assemblies, MonoCallLayout.ptr)
         /\ Readable(GListNode(i), MonoCallLayout.glist_size)
    ELSE Readable(last.from.mono_module.assemblies + 8 * i, 8)

AsmReadable(i) ==
    /\ EntryReadable(i)
    /\ AsmAddr(i) # NULL
    /\ Readable(AsmAddr(i), MonoCallLayout.asm_size)

AsmNameAddr(i) == Val(AsmAddr(i) + MonoCallLayout.asm_name)

NameReadable(i) == AsmReadable(i) /\ Readable(AsmNameAddr(i), NameWindow)

\* entry i is read without a failure and its name is not the queried one
StepPasses(i) == NameReadable(i) /\ WindowCut(AsmNameAddr(i)) # last.arg

\* a read of entry i fails: its slot or node, its assembly, its name window,
\* or the image of the entry whose name is the queried one
StepFails(i) ==
    \/ ~EntryReadable(i)
    \/ EntryReadable(i) /\ AsmAddr(i) # NULL /\ ~AsmReadable(i)
    \/ AsmReadable(i) /\ ~NameReadable(i)
    \/ /\ NameReadable(i)
       /\ WindowCut(AsmNameAddr(i)) = last.arg
       /\ ~Readable(Val(AsmAddr(i) + MonoCallLayout.asm_image), MonoCallLayout.img_size)

\* the first entry that is not passed over has a failing read
FirstFailure(i) == StepFails(i) /\ \A j \in 0..(i - 1) : StepPasses(j)

\* entry k could be read whole and carries the queried name
LaterMatch(k) ==
    /\ Readable(AsmNameAddr(k), NameWindow)
    /\ WindowCut(AsmNameAddr(k)) = last.arg
    /\ Readable(Val(AsmAddr(k) + MonoCallLayout.asm_image), MonoCallLayout.img_size)

\* C19: in get_image of IL2CPP 2020 and of Mono v2, when the first entry that
\* is not passed over has a failing read (its array slot or list node, its
\* assembly struct, its 128-byte name window, or the image of the entry with
\* the queried name), the call returns None, whatever the later entries hold;
\* this includes a name equal to the query with its NUL when fewer than 128
\* bytes are mapped from the start of the name.
C19_FailedReadIsNone ==
    (ImageCall /\ last.from.variant \in Variants)
    => \A i \in 0..MaxAssemblies : FirstFailure(i) => last.res = None

C19_Witness ==
    /\ ImageCall
    /\ \E i \in 0..(MaxAssemblies - 2) :
          /\ FirstFailure(i)
          /\ \E k \in (i + 1)..(MaxAssemblies - 1) : AsmReadable(k) /\ LaterMatch(k)
    /\ last.res = None

C19_WitnessShortName ==
    /\ ImageCall
    /\ \E i \in 0..(MaxAssemblies - 1) :
          /\ FirstFailure(i)
          /\ AsmReadable(i)
          /\ Readable(AsmNameAddr(i), Len(last.arg) + 1)
          /\ ~Readable(AsmNameAddr(i), NameWindow)
          /\ CStr(AsmNameAddr(i)) = last.arg
    /\ last.res = None

C19_WitnessSlot ==
    /\ ImageCall
    /\ \E i \in 1..(MaxAssemblies - 1) : FirstFailure(i) /\ ~EntryReadable(i)
    /\ last.res = None

C19_WitnessImage ==
    /\ ImageCall
    /\ \E i \in 0..(MaxAssemblies - 1) : FirstFailure(i) /\ NameReadable(i)
    /\ last.res = None


(* ------------------------------------------------------------------ *)
(* Mono v2 attach: the scan of the export table *)

MaxExports == 2

\* an export slot: another name, the name with its NUL, a longer name that
\* starts with it, a name RVA outside mapped memory, a name that starts less
\* than 21 bytes before unmapped memory
ExportKinds == {"other", "foreach", "foreach_ex", "bad_name", "cut_name"}

\* slots: the export names in table order; nf: number_of_functions;
\* name_cut: the number of slots of the name table that lie inside the module;
\* addr_ok: the address table lies inside the module
ExportWorlds ==
    UNION {{[variant |-> v, slots |-> s, nf |-> nf, name_cut |-> c, addr_ok |-> a] :
               nf \in 0..Len(s), c \in 0..Len(s), a \in BOOLEAN} :
              v \in MonoVariants, s \in SeqUpTo(ExportKinds, MaxExports)}

MonoBase == ModuleBase["mono-2.0-bdwgc.dll"]

MonoEnd == MonoBase + ModuleSize["mono-2.0-bdwgc.dll"]

\* ten mapped bytes behind the module, with nothing mapped after them
CutNameRva == ModuleSize["mono-2.0-bdwgc.dll"] + 2048

\* slot i (from 0): the RVA of its function, of its name, and the global its
\* function loads the list root from
FnRva(i) == 1536 + 256 * i

ExportNameRva(w, i) ==
    CASE w.slots[i + 1] = "bad_name" -> 2 * ModuleSize["mono-2.0-bdwgc.dll"] + 64 * i
      [] w.slots[i + 1] = "cut_name" -> CutNameRva
      [] OTHER -> 1024 + 32 * i

RootGlobal(i) == MonoBase + 3072 + 16 * i

\* "mono_init", "_ex"
ExportNameBytes(kind) ==
    CASE kind = "other" -> MonoAssemblyGetroot \o <<0>>
      [] kind = "foreach" -> MonoAssemblyForeach \o <<0>>
      [] kind = "foreach_ex" -> MonoAssemblyForeach \o <<95, 101, 120, 0>>
      [] kind = "cut_name" -> <<109, 111, 110, 111, 95, 105, 110, 105, 116, 0>>
      [] OTHER -> <<>>

ExportVal(w) ==
    LET n == Len(w.slots)
        name_table == IF w.name_cut < n
                      THEN ModuleSize["mono-2.0-bdwgc.dll"] - 4 * w.name_cut ELSE 832
        addr_table == IF w.addr_ok THEN 768
                      ELSE 2 * ModuleSize["mono-2.0-bdwgc.dll"] - 1024
        slot(i) ==
            ((MonoBase + name_table + 4 * i) :> ExportNameRva(w, i))
              @@ ((MonoBase + addr_table + 4 * i) :> FnRva(i))
              @@ Bytes(MonoBase + ExportNameRva(w, i), ExportNameBytes(w.slots[i + 1]))
              @@ ((MonoBase + FnRva(i) + 19) :>
                     (RootGlobal(i) - (MonoBase + FnRva(i) + 19 + 4)))
              @@ ((MonoBase + FnRva(i) + 66) :> RootGlobal(i))
    IN ((MonoBase + 532) :> w.nf) @@ ((MonoBase + 540) :> addr_table)
         @@ ((MonoBase + 544) :> name_table)
         @@ MergeAll({slot(i) : i \in 0..(n - 1)})

ExportSigs(w) ==
    [DetectSigs(WalkTarget(w.variant)) EXCEPT
        !.SIG_MONO_64 = {MonoBase + FnRva(i) + 16 : i \in 0..MaxExports},
        !.SIG_MONO_32_1 = {MonoBase + FnRva(i) + 64 : i \in 0..MaxExports}]

ExportMem(w) ==
    LET m == WalkMem(DefaultWorld(w.variant)) IN
    [regions |-> m.regions \cup {<<MonoBase + CutNameRva, MonoBase + CutNameRva + 10>>},
     val |-> ExportVal(w) @@ m.val]

InitExport ==
    /\ \E w \in ExportWorlds :
          /\ modules = DetectModules(WalkTarget(w.variant))
          /\ sigAt = ExportSigs(w)
          /\ mem = ExportMem(w)
    /\ manager = None
    /\ image = None
    /\ class = None
    /\ last = NoCall

NextExport ==
    \/ TryAttach
    \/ GetDefaultImage

SpecExport == InitExport /\ [][NextExport]_vars

\* the export directory as attach reads it from the target
ExportLayout == LayoutOf(last.arg.v)

ExportDirectory == Val(MonoBase + Val(MonoBase + 60) + ExportLayout.pe_export_directory)

NumberOfFunctions == Val(MonoBase + ExportDirectory + 20)

AddrTableRva == Val(MonoBase + ExportDirectory + 28)

NameTableRva == Val(MonoBase + ExportDirectory + 32)

SlotNameRva(i) == Val(MonoBase + NameTableRva + 4 * i)

\* both reads of slot i succeed: its name RVA and the 21 bytes of its name
SlotReadable(i) ==
    /\ Readable(MonoBase + NameTableRva + 4 * i, 4)
    /\ Readable(MonoBase + SlotNameRva(i), 21)

SlotMatches(i) ==
    /\ SlotReadable(i)
    /\ [k \in 1..21 |-> Val(MonoBase + SlotNameRva(i) + k - 1)] = MonoAssemblyForeach

\* the slots before i are read and none of them has the name
ScanReaches(i) == \A j \in 0..(i - 1) : SlotReadable(j) /\ ~SlotMatches(j)

\* a read of slot i fails: its name RVA, its name, or the address of the match
ScanFails(i) ==
    \/ ~SlotReadable(i)
    \/ SlotMatches(i) /\ ~Readable(MonoBase + AddrTableRva + 4 * i, 4)

SlotFunction(i) == MonoBase + Val(MonoBase + AddrTableRva + 4 * i)

\* the list root the attachment gets from the function of slot i
SlotRoot(i) ==
    IF ExportLayout.ptr = 8
    THEN mono_v2_x64_assemblies(SlotFunction(i))
    ELSE mono_v2_x86_assemblies(SlotFunction(i))

MonoAttachCall ==
    /\ last.op = "try_attach"
    /\ last.arg.some
    /\ last.arg.v \in MonoVariants

\* C20: Mono v2 attach scans the export slots 0 .. number_of_functions-1 in
\* order, reading the name RVA of slot i at base + name_table_rva + 4*i and 21
\* bytes at base + name_rva.  At the first slot whose 21 bytes are
\* "mono_assembly_foreach", whatever byte follows them, the function address
\* is base + (u32 at base + addr_table_rva + 4*i), and the attachment is made
\* from that function.  Attach returns None when no slot below
\* number_of_functions matches and when a read of the scan fails before or at
\* the first match.
C20_ExportScan ==
    MonoAttachCall
    => /\ \A i \in 0..(NumberOfFunctions - 1) :
             (ScanReaches(i) /\ SlotMatches(i) /\ ~ScanFails(i))
             => /\ last.res.some = SlotRoot(i).some
                /\ last.res.some => last.res.v.mono_module.assemblies = SlotRoot(i).v
       /\ \A i \in 0..(NumberOfFunctions - 1) :
             (ScanReaches(i) /\ ScanFails(i)) => last.res = None
       /\ ScanReaches(NumberOfFunctions) => last.res = None

\* a longer name is taken as the match, after a slot that does not match
C20_Witness ==
    /\ MonoAttachCall
    /\ \E i \in 1..(NumberOfFunctions - 1) :
          /\ ScanReaches(i) /\ SlotMatches(i)
          /\ Val(MonoBase + SlotNameRva(i) + 21) # 0
          /\ last.res.some
          /\ last.res.v.mono_module.assemblies = SlotRoot(i).v

\* the first of two matching slots gives the function
C20_WitnessFirst ==
    /\ MonoAttachCall
    /\ \E i \in 0..(NumberOfFunctions - 1) :
          /\ ScanReaches(i) /\ SlotMatches(i)
          /\ \E k \in (i + 1)..(NumberOfFunctions - 1) :
                SlotMatches(k) /\ SlotRoot(k) # SlotRoot(i)
          /\ last.res.some
          /\ last.res.v.mono_module.assemblies = SlotRoot(i).v

\* a failed read ends the scan before a later slot that matches
C20_WitnessFailedRead ==
    /\ MonoAttachCall
    /\ \E i \in 0..(NumberOfFunctions - 1) :
          /\ ScanReaches(i) /\ ScanFails(i)
          /\ \E k \in (i + 1)..(NumberOfFunctions - 1) : SlotMatches(k)
    /\ last.res = None

\* the name is in the table at or after slot number_of_functions only
C20_WitnessBeyondCount ==
    /\ MonoAttachCall
    /\ NumberOfFunctions > 0
    /\ ScanReaches(NumberOfFunctions)
    /\ SlotMatches(NumberOfFunctions)
    /\ last.res = None


(* ------------------------------------------------------------------ *)
(* RIP-relative resolution in 64-bit arithmetic *)

\* a - b for b < 2^31: the 64-bit difference and whether it borrowed
SubWide(a, b) ==
    LET d == a[4] - (b % Limb)
        c == a[3] - (b \div Limb) - (IF d < 0 THEN 1 ELSE 0)
        e == a[2] - (IF c < 0 THEN 1 ELSE 0)
        t == a[1] - (IF e < 0 THEN 1 ELSE 0) IN
    [v |-> <<t % Limb, e % Limb, c % Limb, d % Limb>>, under |-> t < 0]

\* u64 + u64 in the code of the walker
u64_add(build, a, b) ==
    LET s == AddWide(a, b) IN
    IF s.over /\ build.profile = "debug" THEN Panic ELSE Ok(s.v)

\* Address + i32, implemented outside this module: the signed sum, which
\* leaves the 64-bit range when a non-negative summand carries or a negative
\* one does not
address_add_i32(build, a, d) ==
    LET s == AddWide(a, i32_as_u64(d))
        out == IF d >= 0 THEN s.over ELSE ~s.over IN
    IF out /\ build.address_add = "panic" THEN Panic ELSE Ok(s.v)

\* mono_v2_x64.rs: scan_address.value() + 0x4 + process.read::<i32>(..)? as u64
mono_v2_x64_rip(build, scan_address, d) ==
    LET a == u64_add(build, scan_address, Wide(0, 4)) IN
    IF ~a.ok THEN Panic ELSE u64_add(build, a.v, i32_as_u64(d))

\* il2cpp_2020.rs and detect_version: addr + 0x4 + process.read::<i32>(addr)?
address_rip(build, addr, d) ==
    LET a == address_add(build, addr, Wide(0, 4)) IN
    IF ~a.ok THEN Panic ELSE address_add_i32(build, a.v, d)

\* the four places that resolve a displacement, with the distance k of the
\* displacement from the match
RipSites ==
    [mono_v2_x64 |-> 3, il2cpp_assemblies |-> 12, il2cpp_type_info |-> -4,
     metadata |-> 3]

\* match + k
rip_operand(build, site, match) ==
    IF RipSites[site] >= 0
    THEN address_add(build, match, Wide(0, RipSites[site]))
    ELSE address_add_i32(build, match, RipSites[site])

rip_resolve(build, site, match, d) ==
    LET P == rip_operand(build, site, match) IN
    IF ~P.ok THEN Panic
    ELSE IF site = "mono_v2_x64" THEN mono_v2_x64_rip(build, P.v, d)
    ELSE address_rip(build, P.v, d)

\* matches inside a module, one near address 0 and one near 2^64
RipMatches ==
    {Wide(0, 16), Wide(0, 40960 + 1552), Wide(1, 0), <<32767, 0, 0, 4096>>,
     <<65535, 65535, 65535, 65280>>}

\* displacements: 0, small and large, of both signs
Displacements == {0, 1513, 2147483647, -1, -128, -2147483647 - 1}

InitRip ==
    /\ modules = DetectModules(WalkTarget("MonoV2_x64"))
    /\ sigAt = DetectSigs(WalkTarget("MonoV2_x64"))
    /\ mem = WalkMem(DefaultWorld("MonoV2_x64"))
    /\ manager = None
    /\ image = None
    /\ class = None
    /\ \E build \in Builds, site \in DOMAIN RipSites, match \in RipMatches,
          d \in Displacements :
          last = [op |-> "rip_input", build |-> build, site |-> site,
                  match |-> match, d |-> d]

\* the displacement read at match + k is resolved
RipResolve ==
    /\ last.op = "rip_input"
    /\ last' = [op |-> "rip", build |-> last.build, site |-> last.site,
                match |-> last.match, d |-> last.d,
                res |-> rip_resolve(last.build, last.site, last.match, last.d)]
    /\ UNCHANGED <<modules, sigAt, mem, manager, image, class>>

NextRip == RipResolve

SpecRip == InitRip /\ [][NextRip]_vars

\* (a + n) mod 2^64 for a signed n of 32 bits, by addition or by subtraction
\* of the magnitude
SignedSum(a, n) ==
    IF n >= 0 THEN AddWide(a, Wide(n \div Limb, n % Limb)).v
    ELSE SubWide(SubWide(a, 0 - (n + 1)).v, 1).v

\* a + n for a negative n lies below 0
Borrows(a, n) ==
    SubWide(a, 0 - (n + 1)).under \/ SubWide(SubWide(a, 0 - (n + 1)).v, 1).under

RipTarget == SignedSum(SignedSum(SignedSum(last.match, RipSites[last.site]), 4), last.d)

\* C21 as stated: at each of the four places, for the displacement d read at
\* P = match + k, the resolved address is (P + 4 + d) mod 2^64 with d taken as
\* a signed 32-bit value, for negative d as for positive d.  The additions of
\* Address, which lie outside the walkers, are taken to wrap.
C21_RipRelative ==
    (last.op = "rip" /\ last.build.address_add = "wrap") => last.res = Ok(RipTarget)

\* without overflow checks the resolved address is the stated one at all four
\* places
RipAgreesOnWrap ==
    (last.op = "rip" /\ last.build.profile = "release" /\ last.build.address_add = "wrap")
    => last.res = Ok(RipTarget)

\* the places that add through Address agree whenever the true sum lies in
\* the 64-bit range
RipAgreesThroughAddress ==
    (last.op = "rip" /\ last.site # "mono_v2_x64" /\ last.res.ok)
    => last.res = Ok(RipTarget)

\* the Mono v2 x64 place with overflow checks: every negative displacement
\* that gives an address in range ends in a panic
RipMonoDebugPanics ==
    (last.op = "rip" /\ last.site = "mono_v2_x64" /\ last.build.profile = "debug"
       /\ last.build.address_add = "wrap" /\ last.d < 0
       /\ ~Borrows(SignedSum(last.match, 3 + 4), last.d))
    => last.res = Panic


(* ------------------------------------------------------------------ *)
(* get_image read by read, with the target writing between the reads *)

MaxRaced == 2

\* the locals of one get_image call: the array slot (IL2CPP) or the list head
\* and node (Mono v2) it is at, the assembly pointer and snapshot, the result
WalkLocals(self, assembly_name) ==
    [op |-> "walk", arg |-> assembly_name, from |-> self,
     pc |-> IF IsMono(self.variant) THEN "root" ELSE "slot",
     slot |-> self.mono_module.assemblies, head |-> NULL,
     node |-> [data |-> NULL, next |-> NULL], ptr |-> NULL,
     asm |-> [name |-> NULL, image |-> NULL], res |-> None]

Returned(loc, r) == [loc EXCEPT !.pc = "done", !.res = r]

\* mutant of walk_image: the assembly is read again before its image is
walk_image_reread(L, loc) ==
    LET again == read_assembly(L, loc.ptr) IN
    IF ~again.ok THEN Returned(loc, None)
    ELSE Returned(loc, as_image(loc.from.variant, loc.from, matched_image(L, again.v)))

\* break mono_assembly.image.read(process).ok()?  and the container around it
walk_image(L, loc) ==
    Returned(loc, as_image(loc.from.variant, loc.from, matched_image(L, loc.asm)))

\* one read of the IL2CPP 2020 loop and what follows it up to the next read
il2cpp_2020_get_image_step(loc) ==
    CASE loc.pc = "slot" ->
            LET ptr == read(loc.slot, 8) IN
            IF ~ptr.ok THEN Returned(loc, None)
            ELSE IF ptr.v = NULL THEN Returned(loc, None)
            ELSE [loc EXCEPT !.pc = "assembly", !.ptr = ptr.v]
      [] loc.pc = "assembly" ->
            LET mono_assembly == read_assembly(LayoutIl2Cpp2020, loc.ptr) IN
            IF ~mono_assembly.ok THEN Returned(loc, None)
            ELSE [loc EXCEPT !.pc = "name", !.asm = mono_assembly.v]
      [] loc.pc = "name" ->
            LET this_name == read_name(loc.asm.name) IN
            IF ~this_name.ok THEN Returned(loc, None)
            ELSE IF this_name.v = loc.arg THEN [loc EXCEPT !.pc = "image"]
            ELSE [loc EXCEPT !.pc = "slot", !.slot = offset(loc.slot, 1, 8)]
      [] loc.pc = "image" -> walk_image(LayoutIl2Cpp2020, loc)

\* one read of the Mono v2 loop and what follows it up to the next read
mono_v2_get_image_step(L, loc) ==
    CASE loc.pc = "root" ->
            LET head == read(loc.from.mono_module.assemblies, L.ptr) IN
            IF ~head.ok THEN Returned(loc, None)
            ELSE [loc EXCEPT !.pc = "node", !.head = head.v]
      [] loc.pc \in {"node", "next"} ->
            LET assemblies ==
                    read_glist(L, IF loc.pc = "node" THEN loc.head ELSE loc.node.next) IN
            IF ~assemblies.ok THEN Returned(loc, None)
            ELSE IF assemblies.v.data = NULL THEN Returned(loc, None)
            ELSE [loc EXCEPT !.pc = "assembly", !.node = assemblies.v,
                             !.ptr = assemblies.v.data]
      [] loc.pc = "assembly" ->
            LET ptr == read_assembly(L, loc.node.data) IN
            IF ~ptr.ok THEN Returned(loc, None)
            ELSE [loc EXCEPT !.pc = "name", !.asm = ptr.v]
      [] loc.pc = "name" ->
            LET name == read_name(loc.asm.name) IN
            IF ~name.ok THEN Returned(loc, None)
            ELSE IF name.v = loc.arg THEN [loc EXCEPT !.pc = "image"]
            ELSE [loc EXCEPT !.pc = "next"]
      [] loc.pc = "image" -> walk_image(L, loc)

get_image_step(loc) ==
    IF IsMono(loc.from.variant)
    THEN mono_v2_get_image_step(LayoutOf(loc.from.variant), loc)
    ELSE il2cpp_2020_get_image_step(loc)

Walking == last.op = "walk" /\ last.pc # "done"

WalkStart(assembly_name) ==
    /\ Running
    /\ manager.some
    /\ manager.v.variant \in Variants
    /\ ~Walking
    /\ last' = WalkLocals(manager.v, assembly_name)
    /\ UNCHANGED <<modules, sigAt, mem, manager, image, class>>

WalkStep ==
    /\ Walking
    /\ last' = get_image_step(last)
    /\ image' = IF last'.pc = "done" /\ last'.res.some THEN last'.res ELSE image
    /\ UNCHANGED <<modules, sigAt, mem, manager, class>>

\* every root list of up to MaxRaced entries; the target moves between them
RaceWorlds ==
    {[DefaultWorld(v) EXCEPT !.asms = a] :
        v \in Variants, a \in SeqUpTo({"A", "CS", "bad_image"}, MaxRaced)}

RaceMems == [w \in RaceWorlds |-> WalkMem(w)]

InitRace ==
    /\ \E w \in RaceWorlds :
          /\ modules = DetectModules(WalkTarget(w.variant))
          /\ sigAt = DetectSigs(WalkTarget(w.variant))
          /\ mem = RaceMems[w]
    /\ manager = None
    /\ image = None
    /\ class = None
    /\ last = NoCall

\* the target rewrites its root list between two reads of the call
TargetWrites ==
    /\ Walking
    /\ \E w \in RaceWorlds :
          /\ w.variant = last.from.variant
          /\ mem' = RaceMems[w]
          /\ mem' # mem
    /\ UNCHANGED <<modules, sigAt, manager, image, class, last>>

NextRace ==
    \/ TryAttach
    \/ \E assembly_name \in AssemblyNames : WalkStart(assembly_name)
    \/ WalkStep
    \/ TargetWrites

SpecRace == InitRace /\ [][NextRace]_vars


WalkLayout == LayoutOf(last.from.variant)

WalkReturned == last.op = "walk" /\ last.pc = "done"

\* C22: with the target rewriting its memory between the reads of one
\* get_image call, the call returns None or an Image of the attachment it was
\* made on; a returned Image is the image struct read, at the moment of that
\* read, through the image pointer of the assembly snapshot whose name window,
\* at the moment it was read, held the queried name; and no step of the call
\* changes the target.
C22_RacedWalk ==
    /\ [](WalkReturned =>
            \/ last.res = None
            \/ /\ last.res.some
               /\ last.res.v.variant = last.from.variant
               /\ last.res.v.mono_module = last.from.mono_module)
    /\ [][(Walking /\ last' # last /\ last'.pc = "name")
            => last'.asm = [name |-> Val(last.ptr + WalkLayout.asm_name),
                            image |-> Val(last.ptr + WalkLayout.asm_image)]]_vars
    /\ [][(Walking /\ last' # last /\ last'.pc = "image")
            => /\ last.pc = "name"
               /\ Readable(last.asm.name, NameWindow)
               /\ WindowCut(last.asm.name) = last.arg
               /\ last'.asm = last.asm]_vars
    /\ [][(Walking /\ last.pc = "image" /\ last' # last)
            => /\ last'.pc = "done"
               /\ last'.res.some = Readable(last.asm.image, WalkLayout.img_size)
               /\ last'.res.some
                    => last'.res.v.mono_image = read_image(WalkLayout, last.asm.image).v]_vars
    /\ [][(Walking /\ last'.pc = "done" /\ last'.res.some) => last.pc = "image"]_vars
    /\ [][last' # last => (mem' = mem /\ modules' = modules /\ sigAt' = sigAt)]_vars

\* an Image is returned although the name of its assembly is no longer the
\* queried one
C22_Witness ==
    /\ WalkReturned
    /\ last.res.some
    /\ Readable(last.asm.name, NameWindow)
    /\ WindowCut(last.asm.name) # last.arg

\* None is returned through the image pointer of the snapshot although the
\* assembly now points to a readable image
C22_WitnessImagePointer ==
    /\ WalkReturned
    /\ last.res = None
    /\ Readable(last.asm.name, NameWindow)
    /\ WindowCut(last.asm.name) = last.arg
    /\ ~Readable(last.asm.image, WalkLayout.img_size)
    /\ Readable(Val(last.ptr + WalkLayout.asm_image), WalkLayout.img_size)

\* None is returned although the list now holds the queried name with an image
C22_WitnessNone ==
    /\ WalkReturned
    /\ last.res = None
    /\ mem = RaceMems[[DefaultWorld(last.from.variant) EXCEPT !.asms = <<"CS", "CS">>]]
    /\ last.arg = AssemblyCSharp


(* ------------------------------------------------------------------ *)
(* get_field: the offset as u64 *)

\* the i32 offsets a field entry may hold: 0, small and largest, of both signs
OffsetValues == {0, 16, 2147483647, -1, -8, -2147483647 - 1}

\* one class whose one or two field entries hold any of the offsets
OffsetWorlds ==
    {[w |-> [DefaultWorld(v) EXCEPT !.asms = <<"CS">>, !.classes = <<"Player">>,
                                    !.fields = f],
      offsets |-> o] :
        v \in Variants, f \in {<<"hp">>, <<"mp", "hp">>, <<"hp", "hp">>},
        o \in [1..2 -> OffsetValues]}

OffsetMem(x) ==
    LET L == LayoutOf(x.w.variant)
        m == WalkMem(x.w) IN
    [regions |-> m.regions,
     val |-> MergeAll({(FieldAt(L, 1, k - 1) + L.fld_offset) :> x.offsets[k] :
                          k \in 1..Len(x.w.fields)})
               @@ m.val]

InitOffset ==
    /\ \E x \in OffsetWorlds :
          /\ modules = DetectModules(WalkTarget(x.w.variant))
          /\ sigAt = DetectSigs(WalkTarget(x.w.variant))
          /\ mem = OffsetMem(x)
    /\ manager = None
    /\ image = None
    /\ class = None
    /\ last = NoCall

NextOffset ==
    \/ TryAttach
    \/ GetDefaultImage
    \/ GetClass(Player)
    \/ \E field_name \in {hp, mp} : GetField(field_name)

SpecOffset == InitOffset /\ [][NextOffset]_vars

\* the i32 offset held by the first entry that matches the query
MatchedOffset ==
    Val(FieldEntry(LayoutOf(last.from.variant), Min(FieldHits))
          + LayoutOf(last.from.variant).fld_offset)

FieldCall == last.op = "get_field" /\ last.from.variant \in Variants

\* C23: get_field returns the i32 offset of the matched entry as u64 by sign
\* extension: Some(o) for an offset o >= 0 and Some(2^64 + o) for a negative
\* offset o; a matched entry never gives None.
C23_OffsetSignExtended ==
    (FieldCall /\ FieldHits # {})
    => last.res = Some(SignedSum(<<0, 0, 0, 0>>, MatchedOffset))

C23_Witness ==
    /\ FieldCall
    /\ FieldHits # {}
    /\ MatchedOffset = -8
    /\ last.res = Some(<<65535, 65535, 65535, 65528>>)

C23_WitnessMin ==
    /\ FieldCall
    /\ FieldHits # {}
    /\ MatchedOffset < -2147483647
    /\ last.res = Some(<<65535, 65535, 32768, 0>>)

C23_WitnessPositive ==
    /\ FieldCall
    /\ FieldHits # {}
    /\ MatchedOffset = 2147483647
    /\ last.res = Some(<<0, 0, 32767, 65535>>)


(* ------------------------------------------------------------------ *)
(* version parsing over UTF-16 code units *)

\* '2', '9', '.', 'f', U+0132 (low byte '2') and U+012E (low byte '.')
CodeUnits == {50, 57, 46, 102, 306, 302}

\* the six code units at match + 0x1E, on the default target
InitVersion ==
    /\ modules = DetectModules(WalkTarget("Il2Cpp_2020"))
    /\ sigAt = DetectSigs(WalkTarget("Il2Cpp_2020"))
    /\ mem = WalkMem(DefaultWorld("Il2Cpp_2020"))
    /\ manager = None
    /\ image = None
    /\ class = None
    /\ \E units \in [1..6 -> CodeUnits] : last = [op |-> "version_input", units |-> units]

\* version_string.map(|m| m as u8), split(|&b| b == b'.') and get_version_no
\* of each segment
version_numbers(units) ==
    LET ver == split(narrow(units)) IN
    [i \in 1..Len(ver) |-> get_version_no(ver[i])]

VersionParse ==
    /\ last.op = "version_input"
    /\ last' = [op |-> "version", units |-> last.units,
                numbers |-> version_numbers(last.units)]
    /\ UNCHANGED <<modules, sigAt, mem, manager, image, class>>

NextVersion == VersionParse

SpecVersion == InitVersion /\ [][NextVersion]_vars

\* the segments of the code units between the units U+002E
UnitSegments(units) == split(units)

\* the decimal value of the leading run of units U+0030..U+0039
RECURSIVE LeadingDigits(_, _)
LeadingDigits(seg, n) ==
    IF n < Len(seg) /\ seg[n + 1] \in 48..57 THEN LeadingDigits(seg, n + 1) ELSE n

RECURSIVE Decimal(_, _)
Decimal(seg, n) ==
    IF n = 0 THEN 0 ELSE Decimal(seg, n - 1) * 10 + (seg[n] - 48)

\* C24 as stated: the code units are split at '.', and the value of a segment
\* is the decimal value of its leading run of digits, where every code unit
\* other than U+0030..U+0039, also one above U+00FF whose low byte is a digit
\* or '.', ends the run and is neither a digit nor a separator; the value
\* stays below 2^32.
C24_VersionParsing ==
    last.op = "version"
    => /\ Len(last.numbers) = Len(UnitSegments(last.units))
       /\ \A i \in 1..Len(last.numbers) :
             /\ last.numbers[i] =
                   Decimal(UnitSegments(last.units)[i],
                           LeadingDigits(UnitSegments(last.units)[i], 0))
             /\ last.numbers[i] < 1000000

\* on code units below U+0100 the parse is the stated one
VersionAgreesOnBytes ==
    (last.op = "version" /\ \A i \in 1..6 : last.units[i] < 256)
    => /\ Len(last.numbers) = Len(UnitSegments(last.units))
       /\ \A i \in 1..Len(last.numbers) :
             last.numbers[i] =
                Decimal(UnitSegments(last.units)[i],
                        LeadingDigits(UnitSegments(last.units)[i], 0))

\* no value leaves 32 bits: six digits at most
VersionFitsU32 ==
    last.op = "version" => \A i \in 1..Len(last.numbers) : last.numbers[i] < 1000000


(* ------------------------------------------------------------------ *)
(* IL2CPP 2020 get_class read by read *)

ZeroClass ==
    [name |-> 0, fields |-> 0, field_count |-> 0, parent |-> 0,
     static_fields |-> 0, vtable_size |-> 0, runtime_info |-> 0,
     next_class_cache |-> 0]

\* the locals of one get_class call: the index in 0..type_count, the table
\* pointer, the slot value, the class snapshot, the slot addresses read so far
ClassLocals(self, class_name) ==
    [op |-> "class_walk", arg |-> class_name, from |-> self, pc |-> "handle",
     i |-> 0, ptr |-> NULL, class_ptr |-> NULL, c |-> ZeroClass, slots |-> <<>>,
     res |-> None]

\* the range 0..type_count as usize gives its next index or ends: find -> None
il2cpp_2020_class_next(loc) ==
    IF loc.i + 1 >= loc.from.mono_image.type_count
    THEN Returned(loc, None)
    ELSE [loc EXCEPT !.pc = "slot", !.i = loc.i + 1]

\* mutant of il2cpp_2020_class_skipped: a slot that yields no class ends the
\* enumeration
il2cpp_2020_class_skipped_ends(loc) == Returned(loc, None)

\* filter_map: the closure returned None for this index
il2cpp_2020_class_skipped(loc) == il2cpp_2020_class_next(loc)

\* one read of get_class and what follows it up to the next read
il2cpp_2020_get_class_step(loc) ==
    CASE loc.pc = "handle" ->
            LET handle == read(loc.from.mono_image.metadata_handle, 4) IN
            IF ~handle.ok THEN Returned(loc, None)
            ELSE IF 0 >= loc.from.mono_image.type_count THEN Returned(loc, None)
            ELSE [loc EXCEPT !.pc = "slot",
                             !.ptr = offset(loc.from.mono_module.type_info_definition_table,
                                            handle.v, 8)]
      [] loc.pc = "slot" ->
            LET class_ptr == index(loc.ptr, loc.i, 8)
                read_loc == [loc EXCEPT !.slots = Append(loc.slots, loc.ptr + loc.i * 8)] IN
            IF ~class_ptr.ok THEN il2cpp_2020_class_skipped(read_loc)
            ELSE IF class_ptr.v = NULL THEN il2cpp_2020_class_skipped(read_loc)
            ELSE [read_loc EXCEPT !.pc = "class", !.class_ptr = class_ptr.v]
      [] loc.pc = "class" ->
            LET c == read_class(LayoutIl2Cpp2020, loc.class_ptr) IN
            IF ~c.ok THEN il2cpp_2020_class_skipped(loc)
            ELSE [loc EXCEPT !.pc = "name", !.c = c.v]
      [] loc.pc = "name" ->
            IF class_matches(loc.c, loc.arg)
            THEN Returned(loc, as_class(loc.from.variant, loc.from, Some(loc.c)))
            ELSE il2cpp_2020_class_next(loc)

ClassWalking == last.op = "class_walk" /\ last.pc # "done"

ClassReturned == last.op = "class_walk" /\ last.pc = "done"

ClassStart(class_name) ==
    /\ Running
    /\ image.some
    /\ image.v.variant = "Il2Cpp_2020"
    /\ ~ClassWalking
    /\ ~ClassReturned
    /\ last' = ClassLocals(image.v, class_name)
    /\ UNCHANGED <<modules, sigAt, mem, manager, image, class>>

ClassStep ==
    /\ ClassWalking
    /\ last' = il2cpp_2020_get_class_step(last)
    /\ class' = IF last'.pc = "done" /\ last'.res.some THEN last'.res ELSE class
    /\ UNCHANGED <<modules, sigAt, mem, manager, image>>

\* every type-info table of up to MaxClasses slots, behind an image whose
\* metadata_handle can or cannot be read
SlotWorlds ==
    {[DefaultWorld("Il2Cpp_2020") EXCEPT !.asms = <<a>>, !.classes = c] :
        a \in {"CS", "no_handle"}, c \in SeqUpTo(SlotKinds, MaxClasses)}

InitSlot == InitWalk(SlotWorlds)

\* the caller makes one call at a time
NextSlot ==
    \/ TryAttach
    \/ ~ClassWalking /\ GetDefaultImage
    \/ \E class_name \in ClassNames : ClassStart(class_name)
    \/ ClassStep

\* a call that has started goes on to its next read
SpecSlot ==
    /\ InitSlot /\ [][NextSlot]_vars
    /\ WF_vars(ClassStep)


\* the address of slot k of the image's part of the type-info table, from the
\* memory of the target
TableSlot(k) ==
    last.from.mono_module.type_info_definition_table
      + 8 * Val(last.from.mono_image.metadata_handle) + 8 * k

TypeCount == last.from.mono_image.type_count

HandleReadable == Readable(last.from.mono_image.metadata_handle, 4)

\* slot k can be read and holds a class that can be read, has the queried name
\* and has fields
SlotHits ==
    {k \in 0..(TypeCount - 1) :
        /\ Readable(TableSlot(k), 8)
        /\ RealMatch(LayoutIl2Cpp2020, Val(TableSlot(k)), last.arg)}

\* the slots read are the slots 0, 1, .. of the table from index
\* *metadata_handle on, fewer than type_count + 1 of them
SlotsInOrder ==
    /\ Len(last.slots) <= TypeCount
    /\ \A k \in 1..Len(last.slots) : last.slots[k] = TableSlot(k - 1)

\* C25: IL2CPP 2020 get_class returns after reading at most type_count slots
\* of the type-info table, which are the slots from index *metadata_handle on
\* in order.  It returns None without reading a slot when metadata_handle
\* cannot be read and when type_count is 0; a null slot, a slot that cannot be
\* read and a class that cannot be read are passed over, so the class of the
\* first slot that holds a readable class with the queried name and fields is
\* returned, and None after type_count slots when there is none.
C25_ClassWalkEnds ==
    /\ (ClassWalking ~> ClassReturned)
    /\ [](last.op = "class_walk" => SlotsInOrder)
    /\ [](ClassReturned =>
            IF ~HandleReadable \/ TypeCount = 0
            THEN last.res = None /\ last.slots = <<>>
            ELSE IF SlotHits = {}
            THEN last.res = None /\ Len(last.slots) = TypeCount
            ELSE /\ last.res.some
                 /\ Len(last.slots) = Min(SlotHits) + 1
                 /\ last.res.v.mono_class
                      = read_class(LayoutIl2Cpp2020, Val(TableSlot(Min(SlotHits)))).v)

\* the call read by read returns what the call as a whole returns
ClassWalkAgrees ==
    ClassReturned => last.res = get_class(last.from, last.arg, TRUE)

\* a class is returned from the third slot after a null slot and a slot that
\* cannot be read
C25_Witness ==
    /\ ClassReturned
    /\ last.res.some
    /\ Len(last.slots) = 3
    /\ \E k \in 0..1 : Readable(TableSlot(k), 8) /\ Val(TableSlot(k)) = NULL
    /\ \E k \in 0..1 : ~Readable(TableSlot(k), 8)

C25_WitnessEmpty ==
    ClassReturned /\ HandleReadable /\ TypeCount = 0 /\ last.res = None

C25_WitnessHandle ==
    ClassReturned /\ ~HandleReadable /\ TypeCount > 0 /\ last.res = None

C25_WitnessAll ==
    /\ ClassReturned
    /\ last.res = None
    /\ Len(last.slots) = MaxClasses
    /\ \E k \in 0..(TypeCount - 1) : ~Readable(TableSlot(k), 8)


---------------------------------------------------------------------------
(* The root of an attachment while the target moves its globals: the target *)
(* holds two root lists and two type-info tables and lets its globals point *)
(* to one or the other, or clears the list head.                            *)

\* the second assemblies array, type-info table and assembly list
AltSlotAt(i) == 45056 + 8 * i
AltTypeInfoAt(i) == 46080 + 8 * i
AltNodeAt(i) == 47104 + 32 * i

\* where the target keeps its globals
AssembliesGlobal == ModuleBase["GameAssembly.dll"] + 2048
TypeInfoGlobal == ModuleBase["GameAssembly.dll"] + 2056
MonoAssembliesGlobal == ModuleBase["mono-2.0-bdwgc.dll"] + 3072

\* what the globals hold: the first structure, the second one, or null
RootKinds == {"first", "moved", "null"}

RootWorlds ==
    {[variant |-> v, root |-> r, table |-> t] :
        v \in Variants, r \in RootKinds, t \in {"first", "moved"}}

\* the first structures hold the assemblies "A", "Assembly-CSharp" and the
\* classes "Enemy", "Player"; the second ones hold "A" and "Enemy" alone
RootMem(w) ==
    LET L == LayoutOf(w.variant)
        base == WalkMem(DefaultWorld(w.variant))
        root ==
            IF IsMono(w.variant)
            THEN MonoAssembliesGlobal :>
                    (CASE w.root = "first" -> NodeAt(1)
                       [] w.root = "moved" -> AltNodeAt(1)
                       [] OTHER -> NULL)
            ELSE (AssembliesGlobal :>
                    (CASE w.root = "first" -> SlotAt(0)
                       [] w.root = "moved" -> AltSlotAt(0)
                       [] OTHER -> NULL))
                   @@ (TypeInfoGlobal :>
                         (IF w.table = "first" THEN TypeInfoAt(0) ELSE AltTypeInfoAt(0)))
        alt ==
            IF IsMono(w.variant)
            THEN ((AltNodeAt(1) + L.glist_data) :> AsmAt(1))
                   @@ ((AltNodeAt(1) + L.glist_next) :> NULL)
            ELSE (AltSlotAt(0) :> AsmAt(1)) @@ (AltSlotAt(1) :> NULL)
                   @@ (AltTypeInfoAt(2) :> ClsAt(1)) @@ (AltTypeInfoAt(3) :> NULL) IN
    [regions |-> base.regions
                   \cup (IF IsMono(w.variant)
                         THEN {<<AltNodeAt(1), AltNodeAt(1) + L.glist_size>>}
                         ELSE {<<AltSlotAt(0), AltSlotAt(2)>>,
                               <<AltTypeInfoAt(0), AltTypeInfoAt(4)>>}),
     val |-> root @@ alt @@ base.val]

RootMems == [w \in RootWorlds |-> RootMem(w)]

InitRoot ==
    /\ \E w \in RootWorlds :
          /\ modules = DetectModules(WalkTarget(w.variant))
          /\ sigAt = DetectSigs(WalkTarget(w.variant))
          /\ mem = RootMems[w]
    /\ manager = None
    /\ image = None
    /\ class = None
    /\ last = NoCall

\* the target stores another pointer in one of its globals
TargetRepoints ==
    /\ \E w \in RootWorlds :
          /\ modules = DetectModules(WalkTarget(w.variant))
          /\ mem' = RootMems[w]
          /\ mem' # mem
    /\ UNCHANGED <<modules, sigAt, manager, image, class, last>>

NextRoot ==
    \/ TryAttach
    \/ \E assembly_name \in AssemblyNames : GetImage(assembly_name)
    \/ GetDefaultImage
    \/ \E class_name \in ClassNames : GetClass(class_name)
    \/ TargetRepoints

SpecRoot == InitRoot /\ [][NextRoot]_vars

\* the image at ImgAt(i), as a result of get_image
ImageResult(i) ==
    /\ last.res.some
    /\ last.res.v.mono_image = read_image(LayoutOf(last.from.variant), ImgAt(i)).v

\* what a lookup of last.arg finds in the first list, in the second list and
\* behind a null pointer
ImageFrom(kind) ==
    CASE kind = "first" -> ImageResult(IF last.arg = NameA THEN 1 ELSE 2)
      [] kind = "moved" -> IF last.arg = NameA THEN ImageResult(1) ELSE last.res = None
      [] OTHER -> last.res = None

\* the class at ClsAt(j), as a result of get_class
ClassResult(j) ==
    /\ last.res.some
    /\ last.res.v.mono_class = read_class(LayoutOf(last.from.variant), ClsAt(j)).v

\* C26: after attach no facade operation modifies the attachment's stored
\* root.  An IL2CPP 2020 attachment holds the values of the assemblies and
\* type-info-table globals as they were read at attach time, and get_image
\* and get_class on it answer from the array and the table those values
\* address, whatever the globals hold at the time of the call.  A Mono v2
\* attachment holds the address of the global, and get_image answers from the
\* list whose head the global holds at the time of the call.
C26_StoredRoot ==
    /\ [][manager.some => manager' = manager]_vars
    /\ [][(~manager.some /\ manager'.some)
            => IF IsMono(manager'.v.variant)
               THEN manager'.v.mono_module.assemblies = MonoAssembliesGlobal
               ELSE /\ manager'.v.mono_module.assemblies = Val(AssembliesGlobal)
                    /\ manager'.v.mono_module.type_info_definition_table
                         = Val(TypeInfoGlobal)]_vars
    /\ []((ImageCall /\ last.from.variant = "Il2Cpp_2020")
            => ImageFrom(CASE last.from.mono_module.assemblies = SlotAt(0) -> "first"
                           [] last.from.mono_module.assemblies = AltSlotAt(0) -> "moved"
                           [] OTHER -> "null"))
    /\ []((last.op = "get_class" /\ last.from.variant = "Il2Cpp_2020")
            => IF last.arg = Enemy THEN ClassResult(1)
               ELSE IF last.from.mono_module.type_info_definition_table = TypeInfoAt(0)
               THEN ClassResult(2)
               ELSE last.res = None)
    /\ [][(last' # last /\ ImageCall' /\ IsMono(last'.from.variant))
            => ImageFrom(CASE Val(MonoAssembliesGlobal) = NodeAt(1) -> "first"
                           [] Val(MonoAssembliesGlobal) = AltNodeAt(1) -> "moved"
                           [] OTHER -> "null")']_vars

\* C26 witness: an IL2CPP 2020 attachment made while the global addressed the
\* first array finds Assembly-CSharp, which the array the global addresses
\* now does not hold
C26_Witness ==
    /\ last.op = "get_default_image" /\ last.from.variant = "Il2Cpp_2020"
    /\ last.from = manager.v
    /\ manager.v.mono_module.assemblies = SlotAt(0)
    /\ Val(AssembliesGlobal) = AltSlotAt(0)
    /\ last.res.some

\* C26 witness: get_class finds Player through the table pointer read at
\* attach time although the global addresses the second table now
C26_WitnessClass ==
    /\ last.op = "get_class" /\ last.from.variant = "Il2Cpp_2020"
    /\ last.arg = Player
    /\ last.from.mono_module.type_info_definition_table = TypeInfoAt(0)
    /\ Val(TypeInfoGlobal) = AltTypeInfoAt(0)
    /\ last.res.some

\* C26 witness: a Mono v2 attachment that has found Assembly-CSharp before
\* does not find it in the list the global holds now
C26_WitnessMono ==
    /\ last.op = "get_default_image" /\ IsMono(last.from.variant)
    /\ last.from = manager.v
    /\ image.some
    /\ image.v.mono_image = read_image(LayoutOf(last.from.variant), ImgAt(2)).v
    /\ Val(MonoAssembliesGlobal) = AltNodeAt(1)
    /\ last.res = None

=============================================================================
